---- MODULE Spec2Model ----
(***************************************************************************)
(* Module instances, host modules and the ownership of native handles in   *)
(* bindings/rust/wasmedge-sys/src/instance/module.rs.                      *)
(*                                                                         *)
(* The native side (the WasmEdge C library behind `ffi::`) is a heap of    *)
(* objects addressed by handles.  The Rust side is the collection of the   *)
(* wrappers that are alive: entity wrappers (Function, Table, Memory,      *)
(* Global), host module wrappers (ImportModule, WasiModule,                *)
(* WasmEdgeProcessModule) and Instance wrappers, each {inner, registered}. *)
(* A wrapper that is dropped, or moved into a call, leaves the collection. *)
(***************************************************************************)
EXTENDS Integers, Sequences, FiniteSets, TLC

VARIABLES
    heap,    \* native objects, heap[h] for handle h (handles are not reused)
    ents,    \* the entity wrappers alive: Function / Table / Memory / Global
    mods,    \* the host module wrappers alive
    insts,   \* the Instance wrappers alive
    store,   \* the Store the host modules are registered into
    pc,      \* the add_* call in progress, or Idle
    res      \* what the last call returned to its caller

vars == <<heap, ents, mods, insts, store, pc, res>>

\* ---------------------------------------------------------------- bounds

MaxHandles == 2     \* native objects ever allocated
MaxGiven == 2       \* entities ever given to one module by add_*
MaxAdds == 2        \* add_* calls that built the module whose directory is read

\* ------------------------------------------------------------- constants

Null == 0           \* std::ptr::null_mut()

Kinds == {"func", "table", "memory", "global"}

\* Names used by callers for exports and lookups; "missing" is never added.
Names == {"add", "mem"}
LookupNames == Names \cup {"missing"}

\* Module names given to ImportModule::create.
ModuleNames == {"extern_module"}

\* Type descriptors (and, for a global, the initial value) the tests create
\* entities with.
Descriptors ==
    {[kind |-> "func",   ty |-> "i32,i32->i32",        val |-> "-"],
     [kind |-> "func",   ty |-> "externref,i32->i32",  val |-> "-"],
     [kind |-> "table",  ty |-> "funcref,0..=MAX",     val |-> "-"],
     [kind |-> "table",  ty |-> "funcref,10..=20",     val |-> "-"],
     [kind |-> "memory", ty |-> "10..=20",             val |-> "-"],
     [kind |-> "memory", ty |-> "1..=2",               val |-> "-"],
     [kind |-> "global", ty |-> "f32,const",           val |-> "3.5"],
     [kind |-> "global", ty |-> "i32,const",           val |-> "666"]}

Idle == [op |-> "idle"]
NoRes == [op |-> "none"]

\* ------------------------------------------------------------ native side

Handles == 1..Len(heap)

\* `released` counts the times the object was destroyed; `byRegistered`
\* remembers a destruction by the drop of a wrapper tagged Registered.
NativeEntity(d) ==
    [kind |-> d.kind, ty |-> d.ty, val |-> d.val, name |-> "",
     exports |-> {}, given |-> <<>>, released |-> 0, byRegistered |-> FALSE,
     cfg |-> <<>>, exit |-> 0, ran |-> FALSE]

\* A module instance: its name, its four export directories (a set of
\* <<kind, name, handle>> with at most one handle per kind and name) and
\* what it was given and destroys with itself, <<kind, name, handle>> in the
\* order given.  A WASI / wasmedge_process module also has the configuration
\* it was created or initialised with (cfg), its exit code, and whether its
\* entry function has run.
NativeModule(name, exports, given) ==
    [kind |-> "module", ty |-> "-", val |-> "-", name |-> name,
     exports |-> exports, given |-> given, released |-> 0, byRegistered |-> FALSE,
     cfg |-> <<>>, exit |-> 0, ran |-> FALSE]

Live(hp, h) == h \in 1..Len(hp) /\ hp[h].released = 0

Dangling(hp, h) == h \in 1..Len(hp) /\ hp[h].released > 0

\* How often the handle h occurs in the list s of what a module was given.
RECURSIVE Occurs(_, _)
Occurs(s, h) ==
    IF s = <<>> THEN 0
    ELSE (IF Head(s)[3] = h THEN 1 ELSE 0) + Occurs(Tail(s), h)

\* destroy(handle) of an entity: one more release of it.
ReleaseEntity(hp, h, reg) ==
    [hp EXCEPT ![h].released = @ + 1, ![h].byRegistered = @ \/ reg]

\* WasmEdge_ModuleInstanceDelete(m): the module is released, and with it
\* every handle the module was given, once per time it was given it.
WasmEdge_ModuleInstanceDelete(hp, m, reg) ==
    [x \in 1..Len(hp) |->
        IF x = m
        THEN [hp[x] EXCEPT !.released = @ + 1, !.byRegistered = @ \/ reg]
        ELSE [hp[x] EXCEPT !.released = @ + Occurs(hp[m].given, x)]]

\* WasmEdge_ModuleInstanceAdd{Function,Table,Memory,Global}(m, name, h): the
\* module takes the handle over.  A name already present in that directory
\* is resolved as the runtime pleases: the first entry stays, or the new one
\* replaces it.
WasmEdge_ModuleInstanceAdd(hp, m, k, n, h, keepFirst) ==
    LET old == {e \in hp[m].exports : e[1] = k /\ e[2] = n}
        new == IF old # {} /\ keepFirst
               THEN hp[m].exports
               ELSE (hp[m].exports \ old) \cup {<<k, n, h>>}
    IN [hp EXCEPT ![m].exports = new, ![m].given = Append(@, <<k, n, h>>)]

\* The lookup as it would be if the four kinds shared one directory.
WasmEdge_ModuleInstanceFind_in_any_directory(hp, m, k, n) ==
    LET hit == {e \in hp[m].exports : e[2] = n}
    IN IF hit = {} THEN Null ELSE (CHOOSE e \in hit : TRUE)[3]

\* WasmEdge_ModuleInstanceFind{Function,...}(m, name): the handle exported
\* under that name in that directory, or null.
WasmEdge_ModuleInstanceFind(hp, m, k, n) ==
    LET hit == {e \in hp[m].exports : e[1] = k /\ e[2] = n}
    IN IF hit = {} THEN Null ELSE (CHOOSE e \in hit : TRUE)[3]

\* WasmEdge_ModuleInstanceList{Function,...}Length(m)
WasmEdge_ModuleInstanceListLength(hp, m, k) ==
    Cardinality({e \in hp[m].exports : e[1] = k})

\* The names WasmEdge_ModuleInstanceList{Function,...} writes into the
\* buffer, as a set; their order is the runtime's.
WasmEdge_ModuleInstanceListNames(hp, m, k) ==
    {e[2] : e \in {x \in hp[m].exports : x[1] = k}}

\* WasmEdge_ModuleInstanceGetModuleName(m)
WasmEdge_ModuleInstanceGetModuleName(hp, m) == hp[m].name

\* -------------------------------------------------------------- wrappers

\* Function / Table / Memory / Global {inner, registered}
EntityWrapper(k, h, reg) == [kind |-> k, inner |-> h, registered |-> reg]

\* ImportModule {inner, registered, name}, WasiModule {inner, registered},
\* WasmEdgeProcessModule {inner, registered}
ModuleWrapper(v, h, name) ==
    [variant |-> v, inner |-> h, registered |-> FALSE, name |-> name]

\* Instance {inner, registered}
InstanceWrapper(h, reg) == [inner |-> h, registered |-> reg]

\* ------------------------------------------------------------------ Drop

\* impl Drop for Function / Table / Memory / Global: release iff Owned and
\* non-null.
Entity_drop_releases(w) == ~w.registered /\ w.inner # Null

\* impl Drop for Instance as it would be without the test of the tag.
Instance_drop_releases_any_tag(w) == w.inner # Null

\* impl Drop for Instance
Instance_drop_releases(w) == ~w.registered /\ w.inner # Null

\* impl Drop for ImportModule
ImportModule_drop_releases(w) == ~w.registered /\ w.inner # Null

\* impl Drop for WasiModule
WasiModule_drop_releases(w) == ~w.registered /\ w.inner # Null

\* impl Drop for WasmEdgeProcessModule
WasmEdgeProcessModule_drop_releases(w) == ~w.registered /\ w.inner # Null

HostModule_drop_releases(w) ==
    CASE w.variant = "Import" -> ImportModule_drop_releases(w)
      [] w.variant = "Wasi" -> WasiModule_drop_releases(w)
      [] w.variant = "WasmEdgeProcess" -> WasmEdgeProcessModule_drop_releases(w)

\* ------------------------------------------------- Instance: the directory

NotFound(k) ==
    CASE k = "func" -> "NotFoundFunc"
      [] k = "table" -> "NotFoundTable"
      [] k = "memory" -> "NotFoundMem"
      [] k = "global" -> "NotFoundGlobal"

\* The characters of the names used here; any other name counts as one
\* character of its own.
Chars(n) ==
    CASE n = "add" -> <<"a", "d", "d">>
      [] n = "Add" -> <<"A", "d", "d">>
      [] n = "ADD" -> <<"A", "D", "D">>
      [] n = "ad" -> <<"a", "d">>
      [] n = "add1" -> <<"a", "d", "d", "1">>
      [] n = "mem" -> <<"m", "e", "m">>
      [] OTHER -> <<n>>

LowerChar(ch) == CASE ch = "A" -> "a" [] ch = "D" -> "d" [] OTHER -> ch

LowerCase(n) == [j \in 1..Len(Chars(n)) |-> LowerChar(Chars(n)[j])]

\* get_func as it would be if names were matched without regard to case.
get_func_ignoring_case(hp, inst, n) ==
    LET hit == {e \in hp[inst.inner].exports :
                   e[1] = "func" /\ LowerCase(e[2]) = LowerCase(n)}
    IN IF hit = {}
       THEN [tag |-> "NotFoundFunc", name |-> n]
       ELSE [tag |-> "Ok",
             ent |-> EntityWrapper("func", (CHOOSE e \in hit : TRUE)[3], TRUE)]

\* get_func as it would be if it handed out the function as Owned.
get_func_owned(hp, inst, n) ==
    LET func_ctx == WasmEdge_ModuleInstanceFind(hp, inst.inner, "func", n)
    IN IF func_ctx = Null
       THEN [tag |-> "NotFoundFunc", name |-> n]
       ELSE [tag |-> "Ok", ent |-> EntityWrapper("func", func_ctx, FALSE)]

\* Instance::get_func
get_func(hp, inst, n) ==
    LET func_ctx == WasmEdge_ModuleInstanceFind(hp, inst.inner, "func", n)
    IN IF func_ctx = Null
       THEN [tag |-> "NotFoundFunc", name |-> n]
       ELSE [tag |-> "Ok", ent |-> EntityWrapper("func", func_ctx, TRUE)]

\* get_table as it would be if it handed out the table as Owned.
get_table_owned(hp, inst, n) ==
    LET ctx == WasmEdge_ModuleInstanceFind(hp, inst.inner, "table", n)
    IN IF ctx = Null
       THEN [tag |-> "NotFoundTable", name |-> n]
       ELSE [tag |-> "Ok", ent |-> EntityWrapper("table", ctx, FALSE)]

\* Instance::get_table
get_table(hp, inst, n) ==
    LET ctx == WasmEdge_ModuleInstanceFind(hp, inst.inner, "table", n)
    IN IF ctx = Null
       THEN [tag |-> "NotFoundTable", name |-> n]
       ELSE [tag |-> "Ok", ent |-> EntityWrapper("table", ctx, TRUE)]

\* get_memory as it would be if it searched the table directory.
get_memory_from_tables(hp, inst, n) ==
    LET ctx == WasmEdge_ModuleInstanceFind(hp, inst.inner, "table", n)
    IN IF ctx = Null
       THEN [tag |-> "NotFoundMem", name |-> n]
       ELSE [tag |-> "Ok", ent |-> EntityWrapper("memory", ctx, TRUE)]

\* get_memory as it would be if it handed out the memory as Owned.
get_memory_owned(hp, inst, n) ==
    LET ctx == WasmEdge_ModuleInstanceFind(hp, inst.inner, "memory", n)
    IN IF ctx = Null
       THEN [tag |-> "NotFoundMem", name |-> n]
       ELSE [tag |-> "Ok", ent |-> EntityWrapper("memory", ctx, FALSE)]

\* Instance::get_memory
get_memory(hp, inst, n) ==
    LET ctx == WasmEdge_ModuleInstanceFind(hp, inst.inner, "memory", n)
    IN IF ctx = Null
       THEN [tag |-> "NotFoundMem", name |-> n]
       ELSE [tag |-> "Ok", ent |-> EntityWrapper("memory", ctx, TRUE)]

\* get_global as it would be without the null check.
get_global_unchecked(hp, inst, n) ==
    [tag |-> "Ok",
     ent |-> EntityWrapper("global", WasmEdge_ModuleInstanceFind(hp, inst.inner, "global", n), TRUE)]

\* Instance::get_global
get_global(hp, inst, n) ==
    LET ctx == WasmEdge_ModuleInstanceFind(hp, inst.inner, "global", n)
    IN IF ctx = Null
       THEN [tag |-> "NotFoundGlobal", name |-> n]
       ELSE [tag |-> "Ok", ent |-> EntityWrapper("global", ctx, TRUE)]

\* table_len as it would be if it asked for the length of the memory list.
table_len_of_memories(hp, inst) ==
    WasmEdge_ModuleInstanceListLength(hp, inst.inner, "memory")

\* Instance::func_len / table_len / mem_len / global_len
func_len(hp, inst) == WasmEdge_ModuleInstanceListLength(hp, inst.inner, "func")
table_len(hp, inst) == WasmEdge_ModuleInstanceListLength(hp, inst.inner, "table")
mem_len(hp, inst) == WasmEdge_ModuleInstanceListLength(hp, inst.inner, "memory")
global_len(hp, inst) == WasmEdge_ModuleInstanceListLength(hp, inst.inner, "global")

\* The sequences that enumerate the set S once each.
Orders(S) ==
    {s \in [1..Cardinality(S) -> S] : \A x \in S : \E i \in 1..Cardinality(S) : s[i] = x}

\* The names the runtime writes into a buffer of len entries: the first len
\* of them, or all of them when there are fewer.
ListInto(hp, m, k, len) ==
    {SubSeq(s, 1, IF len < Len(s) THEN len ELSE Len(s)) :
        s \in Orders(WasmEdge_ModuleInstanceListNames(hp, m, k))}

\* func_names as it would be without the `len > 0` test: an empty list
\* instead of None.
func_names_empty_list(hp, inst) ==
    {[tag |-> "Some", val |-> s] : s \in ListInto(hp, inst.inner, "func", func_len(hp, inst))}

\* Instance::func_names: what the call may return (the order is the runtime's).
func_names(hp, inst) ==
    LET len_func_names == func_len(hp, inst)
    IN IF len_func_names > 0
       THEN {[tag |-> "Some", val |-> s] : s \in ListInto(hp, inst.inner, "func", len_func_names)}
       ELSE {[tag |-> "None", val |-> <<>>]}

\* Instance::table_names
table_names(hp, inst) ==
    LET len_table_names == table_len(hp, inst)
    IN IF len_table_names > 0
       THEN {[tag |-> "Some", val |-> s] : s \in ListInto(hp, inst.inner, "table", len_table_names)}
       ELSE {[tag |-> "None", val |-> <<>>]}

\* Instance::mem_names
mem_names(hp, inst) ==
    LET len_mem_names == mem_len(hp, inst)
    IN IF len_mem_names > 0
       THEN {[tag |-> "Some", val |-> s] : s \in ListInto(hp, inst.inner, "memory", len_mem_names)}
       ELSE {[tag |-> "None", val |-> <<>>]}

\* Instance::global_names
global_names(hp, inst) ==
    LET len_global_names == global_len(hp, inst)
    IN IF len_global_names > 0
       THEN {[tag |-> "Some", val |-> s] : s \in ListInto(hp, inst.inner, "global", len_global_names)}
       ELSE {[tag |-> "None", val |-> <<>>]}

\* Instance::name as it would be without the `is_empty` test.
Instance_name_unchecked(hp, inst) ==
    [tag |-> "Some", val |-> WasmEdge_ModuleInstanceGetModuleName(hp, inst.inner)]

\* Instance::name
Instance_name(hp, inst) ==
    LET name == WasmEdge_ModuleInstanceGetModuleName(hp, inst.inner)
    IN IF name = "" THEN [tag |-> "None", val |-> ""] ELSE [tag |-> "Some", val |-> name]

\* The four lookups, lengths and listings by kind.
Get(k, hp, inst, n) ==
    CASE k = "func" -> get_func(hp, inst, n)
      [] k = "table" -> get_table(hp, inst, n)
      [] k = "memory" -> get_memory(hp, inst, n)
      [] k = "global" -> get_global(hp, inst, n)

ExportLen(k, hp, inst) ==
    CASE k = "func" -> func_len(hp, inst)
      [] k = "table" -> table_len(hp, inst)
      [] k = "memory" -> mem_len(hp, inst)
      [] k = "global" -> global_len(hp, inst)

ExportNames(k, hp, inst) ==
    CASE k = "func" -> func_names(hp, inst)
      [] k = "table" -> table_names(hp, inst)
      [] k = "memory" -> mem_names(hp, inst)
      [] k = "global" -> global_names(hp, inst)

\* ------------------------------------------------------------------ Init

Init ==
    /\ heap = <<>>
    /\ ents = {}
    /\ mods = {}
    /\ insts = {}
    /\ store = [alive |-> TRUE, links |-> {}, owned |-> {}]
    /\ pc = Idle
    /\ res = NoRes

\* ---------------------------------------------------------------- create

\* ImportModule::create as it would be if it tagged the new wrapper Registered.
ImportModule_create_result_registered(ctx, name) ==
    IF ctx = Null
    THEN [tag |-> "CreateImportModule"]
    ELSE [tag |-> "Ok",
          wrapper |-> [ModuleWrapper("Import", ctx, name) EXCEPT !.registered = TRUE]]

\* ImportModule::create: ctx is what WasmEdge_ModuleInstanceCreate returned.
ImportModule_create_result(ctx, name) ==
    IF ctx = Null
    THEN [tag |-> "CreateImportModule"]
    ELSE [tag |-> "Ok", wrapper |-> ModuleWrapper("Import", ctx, name)]

\* WasiModule::create as it would be without the null check.
WasiModule_create_result_unchecked(ctx) ==
    [tag |-> "Ok", wrapper |-> ModuleWrapper("Wasi", ctx, "")]

\* WasiModule::create: ctx is what WasmEdge_ModuleInstanceCreateWASI returned.
WasiModule_create_result(ctx) ==
    IF ctx = Null
    THEN [tag |-> "ImportObjCreate"]
    ELSE [tag |-> "Ok", wrapper |-> ModuleWrapper("Wasi", ctx, "")]

\* WasmEdgeProcessModule::create as it would be without the null check.
WasmEdgeProcessModule_create_result_unchecked(ctx) ==
    [tag |-> "Ok", wrapper |-> ModuleWrapper("WasmEdgeProcess", ctx, "")]

\* WasmEdgeProcessModule::create
WasmEdgeProcessModule_create_result(ctx) ==
    IF ctx = Null
    THEN [tag |-> "ImportObjCreate"]
    ELSE [tag |-> "Ok", wrapper |-> ModuleWrapper("WasmEdgeProcess", ctx, "")]

\* The host function a WASI / wasmedge_process module is created with.
BuiltinFunc == [kind |-> "func", ty |-> "host", val |-> "-"]

\* Option<Vec<&str>>: None, or Some of a list.
None == [some |-> FALSE, val |-> <<>>]
Some(v) == [some |-> TRUE, val |-> v]
OptionalLists == {None, Some(<<"arg1", "arg2">>)}

\* The match as it would be if an absent list stood for the program name.
VecOf_none_as_program(opt) == IF opt.some THEN opt.val ELSE <<"program">>

\* `match args { Some(args) => args...collect(), None => vec![] }`
VecOf(opt) == IF opt.some THEN opt.val ELSE <<>>

\* What the runtime is given by WasiModule::create and init_wasi: the three
\* lists, here by their lengths.
WasiConfig(args, envs, preopens) ==
    <<Len(VecOf(args)), Len(VecOf(envs)), Len(VecOf(preopens))>>

\* What the runtime is given by WasmEdgeProcessModule::create and
\* init_wasmedge_process.
ProcessConfig(allowed_cmds, allowed) == <<Len(VecOf(allowed_cmds)), allowed>>

\* How the backing call of a create ends: with a module, or with null
\* because the allocation failed or (wasmedge_process) the plugin is not
\* loaded.
Outcomes == {"ok", "alloc", "plugin"}

ImportModule_create(name, ok) ==
    /\ pc = Idle
    /\ LET ctx == IF ok THEN Len(heap) + 1 ELSE Null
           r == ImportModule_create_result(ctx, name)
       IN /\ ok => Len(heap) < MaxHandles
          /\ heap' = IF ok THEN Append(heap, NativeModule(name, {}, <<>>)) ELSE heap
          /\ mods' = IF r.tag = "Ok" THEN mods \cup {r.wrapper} ELSE mods
          /\ res' = [op |-> "create", variant |-> "Import", ctx |-> ctx,
                     why |-> IF ok THEN "ok" ELSE "alloc", result |-> r]
    /\ UNCHANGED <<ents, insts, store, pc>>

\* What WasmEdge_ModuleInstanceCreateWASI / ...CreateWasmEdgeProcess returns:
\* the handle of the new module, allocated after its host function, or null.
NewWithBuiltin(ok) == IF ok THEN Len(heap) + 2 ELSE Null

\* The module the runtime makes for WASI / wasmedge_process: named, with its
\* built-in host function f exported under fn, configured with cfg.
BuiltinModule(name, fn, f, cfg) ==
    [NativeModule(name, {<<"func", fn, f>>}, <<<<"func", fn, f>>>>) EXCEPT !.cfg = cfg]

\* A module made with its built-in host function `fn` already exported; r is
\* what create returns for it.  One host function stands for the set the
\* runtime installs.  res keeps the arguments create was called with.
CreateWithBuiltin(v, name, fn, cfg, why, r, given) ==
    /\ pc = Idle
    /\ LET f == Len(heap) + 1
           ok == why = "ok"
       IN /\ ok => Len(heap) + 1 < MaxHandles
          /\ heap' = IF ok
                     THEN heap \o <<NativeEntity(BuiltinFunc), BuiltinModule(name, fn, f, cfg)>>
                     ELSE heap
          /\ mods' = IF r.tag = "Ok" THEN mods \cup {r.wrapper} ELSE mods
          /\ res' = [op |-> "create", variant |-> v, ctx |-> NewWithBuiltin(ok),
                     why |-> why, result |-> r, given |-> given]
    /\ UNCHANGED <<ents, insts, store, pc>>

WasiModule_create(args, envs, preopens, ok) ==
    CreateWithBuiltin("Wasi", "wasi_snapshot_preview1", "fd_write",
                      WasiConfig(args, envs, preopens),
                      IF ok THEN "ok" ELSE "alloc",
                      WasiModule_create_result(NewWithBuiltin(ok)),
                      <<args, envs, preopens>>)

WasmEdgeProcessModule_create(allowed_cmds, allowed, why) ==
    CreateWithBuiltin("WasmEdgeProcess", "wasmedge_process", "wasmedge_process_run",
                      ProcessConfig(allowed_cmds, allowed), why,
                      WasmEdgeProcessModule_create_result(NewWithBuiltin(why = "ok")),
                      <<allowed_cmds, allowed>>)

\* Function::create / Table::create / Memory::create / Global::create
Entity_create(d, ok) ==
    /\ pc = Idle
    /\ ok => Len(heap) < MaxHandles
    /\ heap' = IF ok THEN Append(heap, NativeEntity(d)) ELSE heap
    /\ ents' = IF ok THEN ents \cup {EntityWrapper(d.kind, Len(heap) + 1, FALSE)} ELSE ents
    /\ res' = [op |-> "create", variant |-> "entity",
               result |-> [tag |-> IF ok THEN "Ok" ELSE "CreationFailed"]]
    /\ UNCHANGED <<mods, insts, store, pc>>

\* ----------------------------------------------------------------- add_*

\* add_* as it would be without its last line: the wrapper keeps the handle.
detach_keeps(w) == w

\* add_* as it would be if it tagged the wrapper Registered as well.
detach_and_tag(w) == [w EXCEPT !.inner = Null, !.registered = TRUE]

\* `x.inner.0 = std::ptr::null_mut();`
detach(w) == [w EXCEPT !.inner = Null]

\* add_* as it would be if it took the entity by reference: the caller still
\* has the wrapper, with its handle.
AddCall_by_reference(k, m, n, w) ==
    /\ pc = Idle
    /\ m \in mods
    /\ w \in ents
    /\ w.kind = k
    /\ Len(heap[m.inner].given) < MaxGiven
    /\ \E keepFirst \in BOOLEAN :
          heap' = WasmEdge_ModuleInstanceAdd(heap, m.inner, k, n, w.inner, keepFirst)
    /\ pc' = [op |-> "add", self |-> m, name |-> n, arg |-> w]
    /\ UNCHANGED <<ents, mods, insts, store, res>>

\* The unsafe block of add_func / add_table / add_memory / add_global: the
\* runtime is given the entity's handle under the name.  The wrapper was
\* passed by value: the caller no longer has it.
AddCall(k, m, n, w) ==
    /\ pc = Idle
    /\ m \in mods
    /\ w \in ents
    /\ w.kind = k
    /\ Len(heap[m.inner].given) < MaxGiven
    /\ \E keepFirst \in BOOLEAN :
          heap' = WasmEdge_ModuleInstanceAdd(heap, m.inner, k, n, w.inner, keepFirst)
    /\ ents' = ents \ {w}
    /\ pc' = [op |-> "add", self |-> m, name |-> n, arg |-> w]
    /\ UNCHANGED <<mods, insts, store, res>>

add_func(m, n, w) == AddCall("func", m, n, w)

\* add_table as it would be without its call of WasmEdge_ModuleInstanceAddTable:
\* the wrapper is taken, and the module is given nothing.
add_table_without_link(m, n, w) ==
    /\ pc = Idle
    /\ m \in mods
    /\ w \in ents
    /\ w.kind = "table"
    /\ ents' = ents \ {w}
    /\ pc' = [op |-> "add", self |-> m, name |-> n, arg |-> w]
    /\ UNCHANGED <<heap, mods, insts, store, res>>

add_table(m, n, w) == AddCall("table", m, n, w)
add_memory(m, n, w) == AddCall("memory", m, n, w)
add_global(m, n, w) == AddCall("global", m, n, w)

\* The rest of add_*: the handle is detached from the wrapper, and the
\* wrapper is dropped as add_* returns.  res keeps the wrapper as it was
\* dropped, and whether that drop released its handle.
add_return ==
    /\ pc.op = "add"
    /\ LET shell == detach(pc.arg)
           rel == Entity_drop_releases(shell)
       IN /\ heap' = IF rel THEN ReleaseEntity(heap, shell.inner, shell.registered) ELSE heap
          /\ res' = [op |-> "add", self |-> pc.self, name |-> pc.name, was |-> pc.arg,
                     shell |-> shell, freed |-> rel]
    /\ pc' = Idle
    /\ UNCHANGED <<ents, mods, insts, store>>

\* ------------------------------------------------------------ the store

\* ImportModule::name / WasiModule::name / WasmEdgeProcessModule::name
ImportModule_name(w) == w.name
WasiModule_name(w) == "wasi_snapshot_preview1"
WasmEdgeProcessModule_name(w) == "wasmedge_process"

\* ImportObject::name as it would be with the arms of the two built-in
\* variants exchanged.
ImportObject_name_exchanged(w) ==
    CASE w.variant = "Import" -> ImportModule_name(w)
      [] w.variant = "Wasi" -> WasmEdgeProcessModule_name(w)
      [] w.variant = "WasmEdgeProcess" -> WasiModule_name(w)

\* ImportObject::name as it would be if it returned no name at all.
ImportObject_name_anonymous(w) == ""

\* ImportObject::name
ImportObject_name(w) ==
    CASE w.variant = "Import" -> ImportModule_name(w)
      [] w.variant = "Wasi" -> WasiModule_name(w)
      [] w.variant = "WasmEdgeProcess" -> WasmEdgeProcessModule_name(w)

Linked(name) == {h \in store.links : heap[h].name = name}

\* Executor::register_import_object(&mut store, &import): the store links
\* the module under its name; a name already linked is refused.  The import
\* object is passed by shared reference: its wrapper is left as it is, and
\* the store does not take over the module's destruction.
register_import_object(m) ==
    /\ pc = Idle
    /\ store.alive
    /\ m \in mods
    /\ IF Linked(ImportObject_name(m)) # {}
       THEN /\ res' = [op |-> "register", self |-> m, tag |-> "DuplicateRegistration"]
            /\ UNCHANGED store
       ELSE /\ res' = [op |-> "register", self |-> m, tag |-> "Ok"]
            /\ store' = [store EXCEPT !.links = @ \cup {m.inner}]
    /\ UNCHANGED <<heap, ents, mods, insts, pc>>

\* Store::module(name): the Instance of the module linked under the name, a
\* Registered borrow.
Store_module(name) ==
    /\ pc = Idle
    /\ store.alive
    /\ IF Linked(name) = {}
       THEN /\ res' = [op |-> "module", tag |-> "NotFoundModule"]
            /\ UNCHANGED insts
       ELSE /\ insts' = insts \cup {InstanceWrapper(CHOOSE h \in Linked(name) : TRUE, TRUE)}
            /\ res' = [op |-> "module", tag |-> "Ok"]
    /\ UNCHANGED <<heap, ents, mods, store, pc>>

\* Executor::register_active_module: instantiating a loaded module yields an
\* anonymous, Owned Instance; the module here exports one function, "add".
register_active_module ==
    /\ pc = Idle
    /\ store.alive
    /\ Len(heap) + 1 < MaxHandles
    /\ LET f == Len(heap) + 1
       IN /\ heap' = heap \o <<NativeEntity([kind |-> "func", ty |-> "i32,i32->i32", val |-> "-"]),
                               NativeModule("", {<<"func", "add", f>>}, <<<<"func", "add", f>>>>)>>
          /\ insts' = insts \cup {InstanceWrapper(f + 1, FALSE)}
    /\ res' = [op |-> "instantiate", tag |-> "Ok"]
    /\ UNCHANGED <<ents, mods, store, pc>>

\* --------------------------------------------------- Instance: the calls

\* Reading through a handle whose object has been released is undefined:
\* the memory still holds what it held, or it does not.
FindSeen(k, i, n) ==
    {Get(k, heap, i, n)} \cup
    (IF Live(heap, i.inner) THEN {} ELSE {[tag |-> NotFound(k), name |-> n]})

LenSeen(k, i) ==
    {ExportLen(k, heap, i)} \cup (IF Live(heap, i.inner) THEN {} ELSE {0})

NamesSeen(k, i) ==
    ExportNames(k, heap, i) \cup
    (IF Live(heap, i.inner) THEN {} ELSE {[tag |-> "None", val |-> <<>>]})

\* get_*(name) on the Instance i.  The caller keeps the returned entity
\* (`let f = result.unwrap()`), or lets the result go at the end of the
\* statement, which drops the entity it holds; res keeps the result, and
\* whether that drop released its handle.
CallGet(k, i, n, keep) ==
    /\ pc = Idle
    /\ i \in insts
    /\ \E r \in FindSeen(k, i, n) :
          /\ ents' = IF r.tag = "Ok" /\ keep THEN ents \cup {r.ent} ELSE ents
          /\ heap' = IF r.tag = "Ok" /\ ~keep /\ Entity_drop_releases(r.ent)
                     THEN ReleaseEntity(heap, r.ent.inner, r.ent.registered)
                     ELSE heap
          /\ res' = [op |-> "get", kind |-> k, inst |-> i, arg |-> n, result |-> r,
                     kept |-> keep,
                     freed |-> r.tag = "Ok" /\ ~keep /\ Entity_drop_releases(r.ent),
                     defined |-> Live(heap, i.inner)]
    /\ UNCHANGED <<mods, insts, store, pc>>

Call_get_func(i, n, keep) == CallGet("func", i, n, keep)
Call_get_table(i, n, keep) == CallGet("table", i, n, keep)
Call_get_memory(i, n, keep) == CallGet("memory", i, n, keep)
Call_get_global(i, n, keep) == CallGet("global", i, n, keep)

CallLen(k, i) ==
    /\ pc = Idle
    /\ i \in insts
    /\ \E v \in LenSeen(k, i) :
          res' = [op |-> "len", kind |-> k, inst |-> i, val |-> v,
                  defined |-> Live(heap, i.inner)]
    /\ UNCHANGED <<heap, ents, mods, insts, store, pc>>

Call_func_len(i) == CallLen("func", i)
Call_table_len(i) == CallLen("table", i)
Call_mem_len(i) == CallLen("memory", i)
Call_global_len(i) == CallLen("global", i)

CallNames(k, i) ==
    /\ pc = Idle
    /\ i \in insts
    /\ \E r \in NamesSeen(k, i) :
          res' = [op |-> "names", kind |-> k, inst |-> i, tag |-> r.tag, val |-> r.val,
                  defined |-> Live(heap, i.inner)]
    /\ UNCHANGED <<heap, ents, mods, insts, store, pc>>

Call_func_names(i) == CallNames("func", i)
Call_table_names(i) == CallNames("table", i)
Call_mem_names(i) == CallNames("memory", i)
Call_global_names(i) == CallNames("global", i)

Call_name(i) ==
    /\ pc = Idle
    /\ i \in insts
    /\ \E r \in {Instance_name(heap, i)} \cup
                 (IF Live(heap, i.inner) THEN {} ELSE {[tag |-> "None", val |-> ""]}) :
          res' = [op |-> "name", inst |-> i, tag |-> r.tag, val |-> r.val,
                  defined |-> Live(heap, i.inner)]
    /\ UNCHANGED <<heap, ents, mods, insts, store, pc>>

\* ----------------------------------------------------------------- drops

\* A released module is gone from the store's links.
Unlink(m) == [store EXCEPT !.links = @ \ {m}, !.owned = @ \ {m}]

Drop_entity(w) ==
    /\ pc = Idle
    /\ w \in ents
    /\ heap' = IF Entity_drop_releases(w)
               THEN ReleaseEntity(heap, w.inner, w.registered) ELSE heap
    /\ ents' = ents \ {w}
    /\ res' = NoRes
    /\ UNCHANGED <<mods, insts, store, pc>>

Drop_module(m) ==
    /\ pc = Idle
    /\ m \in mods
    /\ LET rel == HostModule_drop_releases(m)
       IN /\ heap' = IF rel THEN WasmEdge_ModuleInstanceDelete(heap, m.inner, m.registered)
                     ELSE heap
          /\ store' = IF rel THEN Unlink(m.inner) ELSE store
    /\ mods' = mods \ {m}
    /\ res' = NoRes
    /\ UNCHANGED <<ents, insts, pc>>

Drop_instance(i) ==
    /\ pc = Idle
    /\ i \in insts
    /\ LET rel == Instance_drop_releases(i)
       IN /\ heap' = IF rel THEN WasmEdge_ModuleInstanceDelete(heap, i.inner, i.registered)
                     ELSE heap
          /\ store' = IF rel THEN Unlink(i.inner) ELSE store
    /\ insts' = insts \ {i}
    /\ res' = NoRes
    /\ UNCHANGED <<ents, mods, pc>>

\* The modules hp has after those of the set S were destroyed.
RECURSIVE DeleteAll(_, _)
DeleteAll(hp, S) ==
    IF S = {} THEN hp
    ELSE LET m == CHOOSE x \in S : TRUE
         IN DeleteAll(WasmEdge_ModuleInstanceDelete(hp, m, FALSE), S \ {m})

\* The store (and the Vm around it) goes: the modules it made itself go with
\* it; the modules linked into it stay with their owners.
Drop_store ==
    /\ pc = Idle
    /\ store.alive
    /\ heap' = DeleteAll(heap, store.owned)
    /\ store' = [alive |-> FALSE, links |-> {}, owned |-> {}]
    /\ res' = NoRes
    /\ UNCHANGED <<ents, mods, insts, pc>>

\* ------------------------------------------------------------------ Next

\* One descriptor of each kind.
OneOfEachKind ==
    {d \in Descriptors : d.ty \in {"i32,i32->i32", "funcref,0..=MAX", "10..=20", "f32,const"}}

\* The ownership protocol: host modules and entities are created, entities
\* are added, modules are registered, exports are fetched, and every wrapper
\* may be dropped at any point.  One export name is enough here.
Next ==
    \/ \E name \in ModuleNames : ImportModule_create(name, TRUE)
    \/ WasiModule_create(None, None, None, TRUE)
    \/ WasmEdgeProcessModule_create(None, FALSE, "ok")
    \/ \E d \in OneOfEachKind : Entity_create(d, TRUE)
    \/ \E m \in mods, w \in ents : add_func(m, "add", w)
    \/ \E m \in mods, w \in ents : add_table(m, "add", w)
    \/ \E m \in mods, w \in ents : add_memory(m, "add", w)
    \/ \E m \in mods, w \in ents : add_global(m, "add", w)
    \/ add_return
    \/ \E m \in mods : register_import_object(m)
    \/ \E name \in ModuleNames \cup {"wasi_snapshot_preview1", "wasmedge_process"} :
          Store_module(name)
    \/ register_active_module
    \/ \E i \in insts, keep \in BOOLEAN : Call_get_func(i, "add", keep)
    \/ \E i \in insts, keep \in BOOLEAN : Call_get_table(i, "add", keep)
    \/ \E i \in insts, keep \in BOOLEAN : Call_get_memory(i, "add", keep)
    \/ \E i \in insts, keep \in BOOLEAN : Call_get_global(i, "add", keep)
    \/ \E w \in ents : Drop_entity(w)
    \/ \E m \in mods : Drop_module(m)
    \/ \E i \in insts : Drop_instance(i)
    \/ Drop_store

Spec == Init /\ [][Next]_vars

\* ------------------------------------------------- reading the directory

Variants == {"Import", "Wasi", "WasmEdgeProcess"}

\* One add_* call: the entity created with descriptor d is added under the
\* name n; keepFirst is how the runtime resolves a name already present.
AddInputs == [d : Descriptors, n : Names, keepFirst : BOOLEAN]

AddLists == UNION {[1..len -> AddInputs] : len \in 0..MaxAdds}

\* The host module of variant v as its create leaves it.
Created(v) ==
    CASE v = "Import" ->
            <<NativeModule("extern_module", {}, <<>>)>>
      [] v = "Wasi" ->
            <<NativeEntity(BuiltinFunc),
              BuiltinModule("wasi_snapshot_preview1", "fd_write", 1,
                            WasiConfig(None, None, None))>>
      [] v = "WasmEdgeProcess" ->
            <<NativeEntity(BuiltinFunc),
              BuiltinModule("wasmedge_process", "wasmedge_process_run", 1,
                            ProcessConfig(None, FALSE))>>

\* The heap after the entities of `adds` were created and added, in order,
\* to the module m.
RECURSIVE Built(_, _, _)
Built(hp, m, adds) ==
    IF adds = <<>> THEN hp
    ELSE LET a == Head(adds)
             h == Len(hp) + 1
         IN Built(WasmEdge_ModuleInstanceAdd(Append(hp, NativeEntity(a.d)), m,
                                             a.d.kind, a.n, h, a.keepFirst),
                  m, Tail(adds))

\* A host module of any variant that add_* calls have filled: the entity
\* wrappers are gone (add_* took them), the module wrapper is alive.
InitDir ==
    /\ \E v \in Variants, adds \in AddLists :
          /\ heap = Built(Created(v), Len(Created(v)), adds)
          /\ mods = {ModuleWrapper(v, Len(Created(v)),
                                   IF v = "Import" THEN "extern_module" ELSE "")}
    /\ ents = {}
    /\ insts = {}
    /\ store = [alive |-> TRUE, links |-> {}, owned |-> {}]
    /\ pc = Idle
    /\ res = NoRes

\* The module is registered, its Instance is fetched from the store, and the
\* Instance is read.
NextDir ==
    \/ \E m \in mods : register_import_object(m)
    \/ \E name \in ModuleNames \cup {"wasi_snapshot_preview1", "wasmedge_process"} :
          Store_module(name)
    \/ \E i \in insts, n \in LookupNames : Call_get_func(i, n, FALSE)
    \/ \E i \in insts, n \in LookupNames : Call_get_table(i, n, FALSE)
    \/ \E i \in insts, n \in LookupNames : Call_get_memory(i, n, FALSE)
    \/ \E i \in insts, n \in LookupNames : Call_get_global(i, n, FALSE)
    \/ \E i \in insts : Call_func_len(i)
    \/ \E i \in insts : Call_table_len(i)
    \/ \E i \in insts : Call_mem_len(i)
    \/ \E i \in insts : Call_global_len(i)
    \/ \E i \in insts : Call_func_names(i)
    \/ \E i \in insts : Call_table_names(i)
    \/ \E i \in insts : Call_mem_names(i)
    \/ \E i \in insts : Call_global_names(i)
    \/ \E i \in insts : Call_name(i)

SpecDir == InitDir /\ [][NextDir]_vars

\* ------------------------------------------------- the host module's life

\* Names ImportModule::create is called with; the empty name is one of them.
CreateNames == ModuleNames \cup {""}

\* A host module wrapper borrowed from its owner: tagged Registered.
Borrowed(w) == [w EXCEPT !.registered = TRUE]

\* Vm::create with the host module of variant v enabled in its Config, and
\* Vm::wasi_module_mut / Vm::wasmedge_process_module_mut: the module is made
\* and owned by the Vm (here: its store), linked under its name, and handed
\* out as a Registered wrapper.
VmModule(v, name, fn, cfg) ==
    /\ pc = Idle
    /\ store.alive
    /\ IF Linked(name) = {}
       THEN /\ Len(heap) + 1 < MaxHandles
            /\ heap' = heap \o <<NativeEntity(BuiltinFunc),
                                 BuiltinModule(name, fn, Len(heap) + 1, cfg)>>
            /\ store' = [store EXCEPT !.links = @ \cup {Len(heap) + 2},
                                      !.owned = @ \cup {Len(heap) + 2}]
            /\ mods' = mods \cup {Borrowed(ModuleWrapper(v, Len(heap) + 2, ""))}
       ELSE /\ Linked(name) \subseteq store.owned
            /\ mods' = mods \cup {Borrowed(ModuleWrapper(v, h, "")) : h \in Linked(name)}
            /\ UNCHANGED <<heap, store>>
    /\ res' = [op |-> "vm_module", variant |-> v]
    /\ UNCHANGED <<ents, insts, pc>>

Vm_wasi_module_mut ==
    VmModule("Wasi", "wasi_snapshot_preview1", "fd_write", WasiConfig(None, None, None))

Vm_wasmedge_process_module_mut ==
    VmModule("WasmEdgeProcess", "wasmedge_process", "wasmedge_process_run",
             ProcessConfig(None, FALSE))

\* WasmEdge_ModuleInstanceInitWASI(m, ...): the module is configured anew.
WasmEdge_ModuleInstanceInitWASI(hp, m, cfg) == [hp EXCEPT ![m].cfg = cfg]

\* WasmEdge_ModuleInstanceInitWasmEdgeProcess(...): the call names no module;
\* the configuration is that of the wasmedge_process modules there are.
WasmEdge_ModuleInstanceInitWasmEdgeProcess(hp, cfg) ==
    [x \in 1..Len(hp) |->
        IF hp[x].kind = "module" /\ hp[x].name = "wasmedge_process"
        THEN [hp[x] EXCEPT !.cfg = cfg] ELSE hp[x]]

\* WasmEdge_ModuleInstanceWASIGetExitCode(m)
WasmEdge_ModuleInstanceWASIGetExitCode(hp, m) == hp[m].exit

\* init_wasi as it would be if it configured only a module that has no
\* configuration yet.
init_wasi_once(m, args, envs, preopens) ==
    /\ pc = Idle
    /\ m \in mods
    /\ m.variant = "Wasi"
    /\ heap' = IF heap[m.inner].cfg = WasiConfig(None, None, None)
               THEN WasmEdge_ModuleInstanceInitWASI(heap, m.inner,
                                                    WasiConfig(args, envs, preopens))
               ELSE heap
    /\ res' = [op |-> "init", self |-> m, given |-> <<args, envs, preopens>>]
    /\ UNCHANGED <<ents, mods, insts, store, pc>>

\* WasiModule::init_wasi.  A write through a handle whose object has been
\* released is undefined: it lands in what is there, or nowhere.
init_wasi(m, args, envs, preopens) ==
    /\ pc = Idle
    /\ m \in mods
    /\ m.variant = "Wasi"
    /\ \/ heap' = WasmEdge_ModuleInstanceInitWASI(heap, m.inner, WasiConfig(args, envs, preopens))
       \/ ~Live(heap, m.inner) /\ heap' = heap
    /\ res' = [op |-> "init", self |-> m, given |-> <<args, envs, preopens>>]
    /\ UNCHANGED <<ents, mods, insts, store, pc>>

\* WasmEdgeProcessModule::init_wasmedge_process
init_wasmedge_process(m, allowed_cmds, allowed) ==
    /\ pc = Idle
    /\ m \in mods
    /\ m.variant = "WasmEdgeProcess"
    /\ heap' = WasmEdge_ModuleInstanceInitWasmEdgeProcess(heap, ProcessConfig(allowed_cmds, allowed))
    /\ res' = [op |-> "init", self |-> m, given |-> <<allowed_cmds, allowed>>]
    /\ UNCHANGED <<ents, mods, insts, store, pc>>

\* WasiModule::exit_code as it would be if it read a length of the
\* configuration instead.
exit_code_of_config(hp, w) == hp[w.inner].cfg[1]

\* WasiModule::exit_code
exit_code(hp, w) == WasmEdge_ModuleInstanceWASIGetExitCode(hp, w.inner)

\* Exit codes a WASI program ends with.
ExitCodes == {0, 1}

\* exit_code() on the WasiModule m; through a handle whose object has been
\* released it reads what is there, or anything.
Call_exit_code(m) ==
    /\ pc = Idle
    /\ m \in mods
    /\ m.variant = "Wasi"
    /\ \E v \in {exit_code(heap, m)} \cup (IF Live(heap, m.inner) THEN {} ELSE ExitCodes) :
          res' = [op |-> "exit_code", self |-> m, val |-> v,
                  defined |-> Live(heap, m.inner)]
    /\ UNCHANGED <<heap, ents, mods, insts, store, pc>>

\* The entry function ("_start") of a program run against the registered
\* WASI module h ends with the exit code `code`.
Run_start(h, code) ==
    /\ pc = Idle
    /\ store.alive
    /\ h \in Linked("wasi_snapshot_preview1")
    /\ heap' = [heap EXCEPT ![h].exit = code, ![h].ran = TRUE]
    /\ res' = [op |-> "run", code |-> code]
    /\ UNCHANGED <<ents, mods, insts, store, pc>>

\* ImportObject::name() on the host module m.
Call_ImportObject_name(m) ==
    /\ pc = Idle
    /\ m \in mods
    /\ res' = [op |-> "import_name", self |-> m, val |-> ImportObject_name(m)]
    /\ UNCHANGED <<heap, ents, mods, insts, store, pc>>

\* Whether the wrapper w is one of a host module (or one of an Instance).
IsHostModule(w) == "variant" \in DOMAIN w

\* `thread::spawn(move || ...)` as it would be if the closure got a copy of
\* the wrapper and the spawning thread kept its own.
thread_spawn_copy(w) ==
    /\ pc = Idle
    /\ w \in mods \cup insts
    /\ pc' = [op |-> "thread", arg |-> w]
    /\ UNCHANGED <<heap, ents, mods, insts, store, res>>

\* `thread::spawn(move || ...)`: the wrapper w is moved into the closure of
\* the new thread; the spawning thread no longer has it.
thread_spawn_move(w) ==
    /\ pc = Idle
    /\ w \in mods \cup insts
    /\ mods' = mods \ {w}
    /\ insts' = insts \ {w}
    /\ pc' = [op |-> "thread", arg |-> w]
    /\ UNCHANGED <<heap, ents, store, res>>

\* The closure runs (`assert!(!import.inner.0.is_null())`) and ends, which
\* drops the wrapper it owns; `handle.join()` returns.
handle_join ==
    /\ pc.op = "thread"
    /\ LET w == pc.arg
           rel == IF IsHostModule(w) THEN HostModule_drop_releases(w)
                  ELSE Instance_drop_releases(w)
       IN /\ heap' = IF rel THEN WasmEdge_ModuleInstanceDelete(heap, w.inner, w.registered)
                     ELSE heap
          /\ store' = IF rel THEN Unlink(w.inner) ELSE store
          /\ res' = [op |-> "joined", was |-> w, nonnull |-> w.inner # Null, freed |-> rel]
    /\ pc' = Idle
    /\ UNCHANGED <<ents, mods, insts>>

\* Host modules are created (or their creation fails), taken from a Vm,
\* initialised, given a function, registered and dropped; Instances are
\* fetched or instantiated, asked for their name and for a function, moved
\* to another thread, and dropped.
NextHost ==
    \/ \E name \in CreateNames, ok \in BOOLEAN : ImportModule_create(name, ok)
    \/ \E args, envs, preopens \in OptionalLists, ok \in BOOLEAN :
          WasiModule_create(args, envs, preopens, ok)
    \/ \E cmds \in OptionalLists, allowed \in BOOLEAN, why \in Outcomes :
          WasmEdgeProcessModule_create(cmds, allowed, why)
    \/ Vm_wasi_module_mut
    \/ Vm_wasmedge_process_module_mut
    \/ \E m \in mods, args, envs, preopens \in OptionalLists :
          init_wasi(m, args, envs, preopens)
    \/ \E m \in mods, cmds \in OptionalLists, allowed \in BOOLEAN :
          init_wasmedge_process(m, cmds, allowed)
    \/ \E m \in mods : Call_exit_code(m)
    \/ \E h \in Handles, code \in ExitCodes : Run_start(h, code)
    \/ \E m \in mods : Call_ImportObject_name(m)
    \/ \E d \in OneOfEachKind : d.kind = "func" /\ Entity_create(d, TRUE)
    \/ \E m \in mods, w \in ents : add_func(m, "add", w)
    \/ add_return
    \/ \E m \in mods : register_import_object(m)
    \/ \E name \in CreateNames \cup {"wasi_snapshot_preview1", "wasmedge_process"} :
          Store_module(name)
    \/ register_active_module
    \/ \E i \in insts : Call_name(i)
    \/ \E i \in insts, n \in {"add", "missing"} : Call_get_func(i, n, FALSE)
    \/ \E w \in mods \cup insts : thread_spawn_move(w)
    \/ handle_join
    \/ \E m \in mods : Drop_module(m)
    \/ \E i \in insts : Drop_instance(i)
    \/ Drop_store

SpecHost == Init /\ [][NextHost]_vars

\* ------------------------------------------- reading from several threads

\* `unsafe impl Sync for InnerInstance`: threads that share an Instance by
\* reference call its `&self` methods with no lock between them.  pc.at is
\* where each thread is, res.out what its call returned.
Threads == {"t1", "t2"}

Ready == [at |-> "ready"]

\* The calls a thread makes on the shared Instance.
ReadCalls ==
    {[f |-> "name"]}
    \cup {[f |-> "get", kind |-> k, arg |-> n] : k \in Kinds, n \in LookupNames}
    \cup {[f |-> "len", kind |-> k] : k \in Kinds}
    \cup {[f |-> "names", kind |-> k] : k \in Kinds}

\* The add_* calls the shared module was built with: one descriptor of each
\* kind, under either name.
SharedAddLists ==
    UNION {[1..len -> {a \in AddInputs : a.d \in OneOfEachKind /\ ~a.keepFirst}] :
              len \in 0..MaxAdds}

\* A host module of any variant, filled, registered, and its Instance fetched
\* from the store; the threads have been started and have called nothing.
InitConc ==
    /\ \E v \in Variants, adds \in SharedAddLists :
          LET m == Len(Created(v))
          IN /\ heap = Built(Created(v), m, adds)
             /\ mods = {ModuleWrapper(v, m, IF v = "Import" THEN "extern_module" ELSE "")}
             /\ insts = {InstanceWrapper(m, TRUE)}
             /\ store = [alive |-> TRUE, links |-> {m}, owned |-> {}]
    /\ ents = {}
    /\ pc = [op |-> "par", at |-> [t \in Threads |-> Ready]]
    /\ res = [op |-> "par", out |-> [t \in Threads |-> NoRes]]

\* The thread t has made the call c, which returned r.
Returned(t, c, r) ==
    /\ pc' = [pc EXCEPT !.at[t] = [at |-> "done", call |-> c]]
    /\ res' = [res EXCEPT !.out[t] = r]

\* name() in the thread t.
Thread_name(t, i) ==
    /\ pc.at[t] = Ready
    /\ i \in insts
    /\ Returned(t, [f |-> "name"], Instance_name(heap, i))
    /\ UNCHANGED <<heap, ents, mods, insts, store>>

\* get_*(n) in the thread t; the result goes at the end of the statement,
\* which drops the entity it holds.
Thread_get(t, i, k, n) ==
    /\ pc.at[t] = Ready
    /\ i \in insts
    /\ LET r == Get(k, heap, i, n)
       IN /\ heap' = IF r.tag = "Ok" /\ Entity_drop_releases(r.ent)
                     THEN ReleaseEntity(heap, r.ent.inner, r.ent.registered)
                     ELSE heap
          /\ Returned(t, [f |-> "get", kind |-> k, arg |-> n], r)
    /\ UNCHANGED <<ents, mods, insts, store>>

\* *_len() in the thread t.
Thread_len(t, i, k) ==
    /\ pc.at[t] = Ready
    /\ i \in insts
    /\ Returned(t, [f |-> "len", kind |-> k], ExportLen(k, heap, i))
    /\ UNCHANGED <<heap, ents, mods, insts, store>>

\* *_names() in the thread t, as far as `let len = self.*_len();`
Thread_names_len(t, i, k) ==
    /\ pc.at[t] = Ready
    /\ i \in insts
    /\ pc' = [pc EXCEPT !.at[t] = [at |-> "listing", kind |-> k,
                                   len |-> ExportLen(k, heap, i)]]
    /\ UNCHANGED <<heap, ents, mods, insts, store, res>>

\* The rest of *_names() in the thread t: `match len > 0`, and the runtime
\* fills the buffer of len entries.
Thread_names_list(t, i) ==
    /\ pc.at[t].at = "listing"
    /\ i \in insts
    /\ LET k == pc.at[t].kind
           len == pc.at[t].len
       IN \E r \in IF len > 0
                   THEN {[tag |-> "Some", val |-> s] : s \in ListInto(heap, i.inner, k, len)}
                   ELSE {[tag |-> "None", val |-> <<>>]} :
             Returned(t, [f |-> "names", kind |-> k], r)
    /\ UNCHANGED <<heap, ents, mods, insts, store>>

\* Each thread makes one call, the steps of the threads in any order.
NextConc ==
    \/ \E t \in Threads, i \in insts : Thread_name(t, i)
    \/ \E t \in Threads, i \in insts, k \in Kinds, n \in LookupNames : Thread_get(t, i, k, n)
    \/ \E t \in Threads, i \in insts, k \in Kinds : Thread_len(t, i, k)
    \/ \E t \in Threads, i \in insts, k \in Kinds : Thread_names_len(t, i, k)
    \/ \E t \in Threads, i \in insts : Thread_names_list(t, i)

SpecConc == InitConc /\ [][NextConc]_vars

\* --------------------------------------- the three variants, side by side

\* add_* of each `impl ImportInstance`: what the heap is after the call and
\* the drop of the wrapper at its end, and the wrapper as it was dropped.
AfterAdd(hp, shell) ==
    [hp |-> IF Entity_drop_releases(shell)
            THEN ReleaseEntity(hp, shell.inner, shell.registered) ELSE hp,
     shell |-> shell]

\* impl ImportInstance for ImportModule as it would be without the last
\* line of its add_*: the wrapper keeps the handle.
ImportModule_add_keeping(hp, self, n, w, keepFirst) ==
    AfterAdd(WasmEdge_ModuleInstanceAdd(hp, self.inner, w.kind, n, w.inner, keepFirst),
             detach_keeps(w))

\* impl ImportInstance for ImportModule
ImportModule_add(hp, self, n, w, keepFirst) ==
    AfterAdd(WasmEdge_ModuleInstanceAdd(hp, self.inner, w.kind, n, w.inner, keepFirst),
             detach(w))

\* impl ImportInstance for WasiModule as it would be if it tagged the
\* wrappers it empties Registered.
WasiModule_add_and_tag(hp, self, n, w, keepFirst) ==
    AfterAdd(WasmEdge_ModuleInstanceAdd(hp, self.inner, w.kind, n, w.inner, keepFirst),
             detach_and_tag(w))

\* impl ImportInstance for WasiModule
WasiModule_add(hp, self, n, w, keepFirst) ==
    AfterAdd(WasmEdge_ModuleInstanceAdd(hp, self.inner, w.kind, n, w.inner, keepFirst),
             detach(w))

\* impl ImportInstance for WasmEdgeProcessModule as it would be if it gave
\* the entity back to its wrapper when the name is already taken.
WasmEdgeProcessModule_add_undoing_collision(hp, self, n, w, keepFirst) ==
    AfterAdd(WasmEdge_ModuleInstanceAdd(hp, self.inner, w.kind, n, w.inner, keepFirst),
             IF WasmEdge_ModuleInstanceFind(hp, self.inner, w.kind, n) # Null
             THEN detach_keeps(w) ELSE detach(w))

\* impl ImportInstance for WasmEdgeProcessModule
WasmEdgeProcessModule_add(hp, self, n, w, keepFirst) ==
    AfterAdd(WasmEdge_ModuleInstanceAdd(hp, self.inner, w.kind, n, w.inner, keepFirst),
             detach(w))

\* The three modules, one of each variant, as their creates leave them.
ImportAt == 1
WasiAt == 3
ProcessAt == 5

InitEach ==
    /\ heap = <<NativeModule("extern_module", {}, <<>>),
                NativeEntity(BuiltinFunc),
                BuiltinModule("wasi_snapshot_preview1", "fd_write", 2,
                              WasiConfig(None, None, None)),
                NativeEntity(BuiltinFunc),
                BuiltinModule("wasmedge_process", "wasmedge_process_run", 4,
                              ProcessConfig(None, FALSE))>>
    /\ mods = {ModuleWrapper("Import", ImportAt, "extern_module"),
               ModuleWrapper("Wasi", WasiAt, ""),
               ModuleWrapper("WasmEdgeProcess", ProcessAt, "")}
    /\ ents = {}
    /\ insts = {}
    /\ store = [alive |-> TRUE, links |-> {}, owned |-> {}]
    /\ pc = Idle
    /\ res = NoRes

\* The same add_* call on each of the three modules: three entities of the
\* descriptor d are made, with the tag reg, and each module is given one
\* under the name n.
AddToEach(d, n, reg, keepFirst) ==
    /\ pc = Idle
    /\ Len(heap[ImportAt].given) < MaxAdds
    /\ LET h == Len(heap)
           hp0 == heap \o <<NativeEntity(d), NativeEntity(d), NativeEntity(d)>>
           a1 == ImportModule_add(hp0, ModuleWrapper("Import", ImportAt, "extern_module"),
                                  n, EntityWrapper(d.kind, h + 1, reg), keepFirst)
           a2 == WasiModule_add(a1.hp, ModuleWrapper("Wasi", WasiAt, ""),
                                n, EntityWrapper(d.kind, h + 2, reg), keepFirst)
           a3 == WasmEdgeProcessModule_add(a2.hp, ModuleWrapper("WasmEdgeProcess", ProcessAt, ""),
                                           n, EntityWrapper(d.kind, h + 3, reg), keepFirst)
       IN /\ heap' = a3.hp
          /\ res' = [op |-> "add_each", name |-> n, kind |-> d.kind, reg |-> reg,
                     shells |-> <<a1.shell, a2.shell, a3.shell>>]
    /\ UNCHANGED <<ents, mods, insts, store, pc>>

\* The same call is made on each variant, under the callers' names and under
\* the name of the function a WasiModule is created with.
NextEach ==
    \E d \in OneOfEachKind, n \in Names \cup {"fd_write"}, reg, keepFirst \in BOOLEAN :
        AddToEach(d, n, reg, keepFirst)

SpecEach == InitEach /\ [][NextEach]_vars

\* ------------------------------------------------------- names looked up

\* Names entities are added under, and names looked up: the added ones, and
\* ones that differ from "add" in case only, or are a proper prefix or an
\* extension of it.
CasedNames == {"add", "Add"}
QueryNames == CasedNames \cup {"ADD", "ad", "add1"}

\* A host module of any variant, filled under the cased names, registered,
\* and its Instance fetched from the store.
InitNames ==
    /\ \E v \in Variants,
          adds \in UNION {[1..len -> [d : OneOfEachKind, n : CasedNames, keepFirst : {FALSE}]] :
                             len \in 0..MaxAdds} :
          LET m == Len(Created(v))
          IN /\ heap = Built(Created(v), m, adds)
             /\ mods = {ModuleWrapper(v, m, IF v = "Import" THEN "extern_module" ELSE "")}
             /\ insts = {InstanceWrapper(m, TRUE)}
             /\ store = [alive |-> TRUE, links |-> {m}, owned |-> {}]
    /\ ents = {}
    /\ pc = Idle
    /\ res = NoRes

NextNames ==
    \/ \E i \in insts, q \in QueryNames : Call_get_func(i, q, FALSE)
    \/ \E i \in insts, q \in QueryNames : Call_get_table(i, q, FALSE)
    \/ \E i \in insts, q \in QueryNames : Call_get_memory(i, q, FALSE)
    \/ \E i \in insts, q \in QueryNames : Call_get_global(i, q, FALSE)

SpecNames == InitNames /\ [][NextNames]_vars

\* ------------------------------------------------- registering once more

\* The heap hp and after it a second host module, of variant v, as its
\* create leaves it.
WithSecond(hp, v) ==
    CASE v = "Import" ->
            Append(hp, NativeModule("extern_module", {}, <<>>))
      [] v = "Wasi" ->
            hp \o <<NativeEntity(BuiltinFunc),
                    BuiltinModule("wasi_snapshot_preview1", "fd_write", Len(hp) + 1,
                                  WasiConfig(None, None, None))>>
      [] v = "WasmEdgeProcess" ->
            hp \o <<NativeEntity(BuiltinFunc),
                    BuiltinModule("wasmedge_process", "wasmedge_process_run", Len(hp) + 1,
                                  ProcessConfig(None, FALSE))>>

\* A host module that was filled (one descriptor of each kind, under the
\* name "add") and registered, its Instance fetched from the store, and a
\* second host module, of the same variant or of another, that has been
\* created and not registered.
InitAgain ==
    /\ \E v \in Variants, v2 \in Variants,
          adds \in UNION {[1..len -> [d : OneOfEachKind, n : {"add"}, keepFirst : {FALSE}]] :
                             len \in 0..MaxAdds} :
          LET m == Len(Created(v))
              hp == Built(Created(v), m, adds)
          IN /\ heap = WithSecond(hp, v2)
             /\ mods = {ModuleWrapper(v, m, IF v = "Import" THEN "extern_module" ELSE ""),
                        ModuleWrapper(v2, Len(WithSecond(hp, v2)),
                                      IF v2 = "Import" THEN "extern_module" ELSE "")}
             /\ insts = {InstanceWrapper(m, TRUE)}
             /\ store = [alive |-> TRUE, links |-> {m}, owned |-> {}]
    /\ ents = {}
    /\ pc = Idle
    /\ res = NoRes

\* Either module is registered (again), Instances are fetched and read.
NextAgain ==
    \/ \E m \in mods : register_import_object(m)
    \/ \E name \in ModuleNames \cup {"wasi_snapshot_preview1", "wasmedge_process"} :
          Store_module(name)
    \/ \E i \in insts : Call_name(i)
    \/ \E i \in insts, n \in {"add", "missing"} : Call_get_func(i, n, FALSE)
    \/ \E i \in insts : Call_func_len(i)
    \/ \E i \in insts : Call_func_names(i)

SpecAgain == InitAgain /\ [][NextAgain]_vars

\* ---------------------------------------- built, and dropped unregistered

\* trait ImportInstance: add_* of whichever variant self is.
HostModule_add(hp, self, n, w, keepFirst) ==
    CASE self.variant = "Import" -> ImportModule_add(hp, self, n, w, keepFirst)
      [] self.variant = "Wasi" -> WasiModule_add(hp, self, n, w, keepFirst)
      [] self.variant = "WasmEdgeProcess" ->
            WasmEdgeProcessModule_add(hp, self, n, w, keepFirst)

\* As many entities as there are kinds are added to the module.
MaxBuilt == Cardinality(Kinds)

\* A host module of any variant as its create leaves it.
InitBuild ==
    /\ \E v \in Variants :
          /\ heap = Created(v)
          /\ mods = {ModuleWrapper(v, Len(Created(v)),
                                   IF v = "Import" THEN "extern_module" ELSE "")}
    /\ ents = {}
    /\ insts = {}
    /\ store = [alive |-> TRUE, links |-> {}, owned |-> {}]
    /\ pc = Idle
    /\ res = NoRes

\* `let x = X::create(..).unwrap(); import.add_x(n, x);`: an entity of the
\* descriptor d is created and added to the module m under the name n.
Create_and_add(m, d, n, keepFirst) ==
    /\ pc = Idle
    /\ m \in mods
    /\ Len(heap) < Len(Created(m.variant)) + MaxBuilt
    /\ LET w == EntityWrapper(d.kind, Len(heap) + 1, FALSE)
           a == HostModule_add(Append(heap, NativeEntity(d)), m, n, w, keepFirst)
       IN /\ heap' = a.hp
          /\ res' = [op |-> "add", self |-> m, name |-> n, was |-> w,
                     shell |-> a.shell, freed |-> Entity_drop_releases(a.shell)]
    /\ UNCHANGED <<ents, mods, insts, store, pc>>

\* The module is filled, and dropped at the end of the scope, unregistered.
NextBuild ==
    \/ \E m \in mods, d \in OneOfEachKind, n \in Names, keepFirst \in BOOLEAN :
          Create_and_add(m, d, n, keepFirst)
    \/ \E m \in mods : Drop_module(m)

SpecBuild == InitBuild /\ [][NextBuild]_vars

\* Entities are added to one module under one name, so that adds of one
\* kind collide; the module is registered, its Instance is fetched and
\* read, and the module wrapper and the store are dropped.
NextSame ==
    \/ \E m \in mods, d \in OneOfEachKind, keepFirst \in BOOLEAN :
          d.kind \in {"func", "global"} /\ Create_and_add(m, d, "add", keepFirst)
    \/ \E m \in mods : register_import_object(m)
    \/ \E name \in {"extern_module", "wasi_snapshot_preview1", "wasmedge_process"} :
          Store_module(name)
    \/ \E i \in insts : Call_get_func(i, "add", FALSE)
    \/ \E i \in insts : Call_get_global(i, "add", FALSE)
    \/ \E i \in insts : Call_func_len(i)
    \/ \E i \in insts : Call_global_len(i)
    \/ \E i \in insts : Call_func_names(i)
    \/ \E i \in insts : Call_global_names(i)
    \/ \E m \in mods : Drop_module(m)
    \/ Drop_store

SpecSame == InitBuild /\ [][NextSame]_vars

\* The lists create and init_* are called with: absent, empty, or of two.
OptionalArgs == OptionalLists \cup {Some(<<>>)}

\* Nothing has been created yet; or a WasiModule that was given an entity
\* and two WasmEdgeProcessModules have been, each with its wrapper.
InitInits ==
    /\ \/ heap = <<>> /\ mods = {}
       \/ \E d \in OneOfEachKind, cmds \in OptionalLists, allowed \in BOOLEAN :
             /\ heap = Built(Created("Wasi"), 2, <<[d |-> d, n |-> "add", keepFirst |-> FALSE]>>)
                       \o <<NativeEntity(BuiltinFunc),
                            BuiltinModule("wasmedge_process", "wasmedge_process_run", 4,
                                          ProcessConfig(None, FALSE)),
                            NativeEntity(BuiltinFunc),
                            BuiltinModule("wasmedge_process", "wasmedge_process_run", 6,
                                          ProcessConfig(cmds, allowed))>>
             /\ mods = {ModuleWrapper("Wasi", 2, ""),
                        ModuleWrapper("WasmEdgeProcess", 5, ""),
                        ModuleWrapper("WasmEdgeProcess", 7, "")}
    /\ ents = {}
    /\ insts = {}
    /\ store = [alive |-> TRUE, links |-> {}, owned |-> {}]
    /\ pc = Idle
    /\ res = NoRes

\* The built-in modules are created, and configured again.
NextInits ==
    \/ \E args, envs, preopens \in OptionalArgs : WasiModule_create(args, envs, preopens, TRUE)
    \/ \E cmds \in OptionalArgs, allowed \in BOOLEAN :
          WasmEdgeProcessModule_create(cmds, allowed, "ok")
    \/ \E m \in mods, args, envs, preopens \in OptionalArgs :
          init_wasi(m, args, envs, preopens)
    \/ \E m \in mods, cmds \in OptionalArgs, allowed \in BOOLEAN :
          init_wasmedge_process(m, cmds, allowed)

SpecInits == InitInits /\ [][NextInits]_vars

\* ------------------------------------------ shared behind a mutex

\* `Arc<Mutex<ImportObject>>`: the import object built by one thread is
\* shared; a thread that wants it takes the lock.  pc.lock is the thread
\* that holds the lock, pc.at where each thread is in its closure; res.reg
\* is what the registration returned to the thread, res.out what its lookup
\* returned.
Unlocked == "none"

\* Executor::register_import_object(&mut st, &m), with hp the native state:
\* the store afterwards, and what is returned.
RegisterInto(st, hp, m) ==
    IF \E h \in st.links : hp[h].name = ImportObject_name(m)
    THEN [store |-> st, tag |-> "DuplicateRegistration"]
    ELSE [store |-> [st EXCEPT !.links = @ \cup {m.inner}], tag |-> "Ok"]

\* A host module of any variant has been filled by the thread that made it
\* and put behind the mutex; no thread has the lock.
InitSync ==
    /\ \E v \in Variants, adds \in SharedAddLists :
          LET m == Len(Created(v))
          IN /\ heap = Built(Created(v), m, adds)
             /\ mods = {ModuleWrapper(v, m, IF v = "Import" THEN "extern_module" ELSE "")}
    /\ ents = {}
    /\ insts = {}
    /\ store = [alive |-> FALSE, links |-> {}, owned |-> {}]
    /\ pc = [op |-> "sync", lock |-> Unlocked, at |-> [t \in Threads |-> "start"]]
    /\ res = [op |-> "sync", reg |-> [t \in Threads |-> NoRes],
              out |-> [t \in Threads |-> NoRes]]

\* `import_cloned.lock()` as it would be if it never waited.
Mutex_lock_not_waiting(t) ==
    /\ pc.at[t] = "start"
    /\ pc' = [pc EXCEPT !.lock = t, !.at[t] = "locked"]
    /\ UNCHANGED <<heap, ents, mods, insts, store, res>>

\* `import_cloned.lock()`: returns once no other thread holds the lock.
Mutex_lock(t) ==
    /\ pc.at[t] = "start"
    /\ pc.lock = Unlocked
    /\ pc' = [pc EXCEPT !.lock = t, !.at[t] = "locked"]
    /\ UNCHANGED <<heap, ents, mods, insts, store, res>>

\* Store::create, Executor::create and register_import_object, in the
\* thread t, which holds the guard.
Locked_register(t, m) ==
    /\ pc.at[t] = "locked"
    /\ m \in mods
    /\ LET r == RegisterInto([alive |-> TRUE, links |-> {}, owned |-> {}], heap, m)
       IN /\ store' = r.store
          /\ res' = [res EXCEPT !.reg[t] = [tag |-> r.tag]]
    /\ pc' = [pc EXCEPT !.at[t] = "registered"]
    /\ UNCHANGED <<heap, ents, mods, insts>>

\* `store.module(name)` in the thread t.
Locked_module(t, m) ==
    /\ pc.at[t] = "registered"
    /\ m \in mods
    /\ Linked(ImportObject_name(m)) # {}
    /\ insts' = insts \cup {InstanceWrapper(CHOOSE h \in Linked(ImportObject_name(m)) : TRUE,
                                            TRUE)}
    /\ pc' = [pc EXCEPT !.at[t] = "fetched"]
    /\ UNCHANGED <<heap, ents, mods, store, res>>

\* `instance.get_*(n)` in the thread t; the result goes, which drops the
\* entity it holds.
Locked_get(t, i, k, n) ==
    /\ pc.at[t] = "fetched"
    /\ i \in insts
    /\ LET r == Get(k, heap, i, n)
       IN /\ heap' = IF r.tag = "Ok" /\ Entity_drop_releases(r.ent)
                     THEN ReleaseEntity(heap, r.ent.inner, r.ent.registered)
                     ELSE heap
          /\ res' = [res EXCEPT !.out[t] = [kind |-> k, inst |-> i, arg |-> n,
                                            result |-> r]]
    /\ pc' = [pc EXCEPT !.at[t] = "read"]
    /\ UNCHANGED <<ents, mods, insts, store>>

\* The closure of the thread t ends: the Instance, the store and the guard
\* are dropped, which gives the lock back.
Locked_end(t) ==
    /\ pc.at[t] = "read"
    /\ heap' = DeleteAll(heap, {i.inner : i \in {x \in insts : Instance_drop_releases(x)}})
    /\ insts' = {}
    /\ store' = [alive |-> FALSE, links |-> {}, owned |-> {}]
    /\ pc' = [pc EXCEPT !.lock = Unlocked, !.at[t] = "done"]
    /\ UNCHANGED <<ents, mods, res>>

NextSync ==
    \/ \E t \in Threads : Mutex_lock(t)
    \/ \E t \in Threads, m \in mods : Locked_register(t, m)
    \/ \E t \in Threads, m \in mods : Locked_module(t, m)
    \/ \E t \in Threads, i \in insts, k \in Kinds, n \in LookupNames : Locked_get(t, i, k, n)
    \/ \E t \in Threads : Locked_end(t)

SpecSync == InitSync /\ [][NextSync]_vars

\* ================================================================ claims

\* What the module m was given, as a set; whether it was given h under the
\* name n as a k; whether some module that is alive destroys h with itself.
Holds(m, k, n, h) ==
    \E j \in 1..Len(heap[m].given) : heap[m].given[j] = <<k, n, h>>

ContainerOwns(h) ==
    \E m \in Handles :
        /\ heap[m].kind = "module"
        /\ heap[m].released = 0
        /\ Occurs(heap[m].given, h) > 0

\* The entries of what m was given that add_* calls put there, and the ones
\* the module was created with.
IsBuiltin(e) == heap[e[3]].ty = BuiltinFunc.ty
Added(m) == {j \in 1..Len(heap[m].given) : ~IsBuiltin(heap[m].given[j])}
Builtins(m) == {j \in 1..Len(heap[m].given) : IsBuiltin(heap[m].given[j])}
OfKind(m, J, k) == {j \in J : heap[m].given[j][1] = k}
Under(m, J, k, n) == {j \in OfKind(m, J, k) : heap[m].given[j][2] = n}
NamesOf(m, J) == {heap[m].given[j][2] : j \in J}

\* The names add_* was called with on m are pairwise distinct.
DistinctNames(m) ==
    \A i, j \in Added(m) : i # j => heap[m].given[i][2] # heap[m].given[j][2]

\* The elements of a sequence.
Range(s) == {s[j] : j \in 1..Len(s)}

\* ------------------------------------------------------------------- C1
\* C1: after any sequence of create, add_*, register, get_* and drop, no
\* native handle has been released by the drop of a wrapper tagged
\* Registered, and no native handle has been released more than once.
C1_NeverByRegisteredNeverTwice ==
    \A h \in Handles : ~heap[h].byRegistered /\ heap[h].released <= 1

\* ------------------------------------------------------------------- C2
\* C2 (as stated): when add_* returns, the entity's wrapper has a null
\* handle and is tagged Registered, and the host module holds the handle.
C2_NullAndTaggedRegistered ==
    res.op = "add" =>
        /\ res.shell.inner = Null
        /\ res.shell.registered
        /\ Holds(res.self.inner, res.was.kind, res.name, res.was.inner)

\* C2 (amended): when add_* returns, the entity's wrapper has a null handle
\* and the tag it came with (add_* does not touch the tag), and the host
\* module holds the handle.
C2_NullAndTagUntouched ==
    res.op = "add" =>
        /\ res.shell.inner = Null
        /\ res.shell.registered = res.was.registered
        /\ Holds(res.self.inner, res.was.kind, res.name, res.was.inner)

\* An entity that was created (Owned) has been added: its wrapper ended with
\* a null handle, still Owned.
C2_OwnedEntityAdded ==
    /\ res.op = "add"
    /\ res.was.inner # Null
    /\ ~res.was.registered
    /\ res.shell = EntityWrapper(res.was.kind, Null, FALSE)
    /\ Holds(res.self.inner, res.was.kind, res.name, res.was.inner)

\* ------------------------------------------------------------------- C3
\* C3: after an entity has been added to a host module its wrapper is inert:
\* the drop of the wrapper at the end of add_* released nothing, and no
\* further drop of it would.
C3_AddedWrapperInert ==
    res.op = "add" => ~res.freed /\ ~Entity_drop_releases(res.shell)

\* An Owned entity, whose drop would have released its handle, was added.
C3_ReleasingWrapperAdded ==
    /\ res.op = "add"
    /\ Entity_drop_releases(res.was)
    /\ ~res.freed

\* ------------------------------------------------------------------- C4
\* C4: in every reachable state every wrapper (entity, borrowed entity, host
\* module, Instance) with a non-null handle refers to a native object that
\* has not been released, whatever the order of the drops.
C4_NoWrapperDangles ==
    /\ \A w \in ents : w.inner # Null => Live(heap, w.inner)
    /\ \A m \in mods : m.inner # Null => Live(heap, m.inner)
    /\ \A i \in insts : i.inner # Null => Live(heap, i.inner)

\* ------------------------------------------------------------------- C5
\* C5 (amended): whenever no add_* call is in progress, no entity wrapper
\* and host module both own a handle: not a wrapper the caller has, and not
\* the wrapper the last add_* was given.
C5_OneOwnerOutsideAdd ==
    pc = Idle =>
        /\ \A w \in ents : ~(Entity_drop_releases(w) /\ ContainerOwns(w.inner))
        /\ res.op = "add" =>
              ~(Entity_drop_releases(res.shell) /\ ContainerOwns(res.was.inner))

\* C5 (as stated): there is no reachable state, the states between the steps
\* inside add_* included, in which the origin wrapper and the host module
\* both own the handle.
C5_OneOwnerAlways ==
    /\ C5_OneOwnerOutsideAdd
    /\ pc # Idle => ~(Entity_drop_releases(pc.arg) /\ ContainerOwns(pc.arg.inner))

\* add_* has returned for an Owned entity, and its host module owns the
\* handle now.
C5_TransferDone ==
    /\ pc = Idle
    /\ res.op = "add"
    /\ Entity_drop_releases(res.was)
    /\ ContainerOwns(res.was.inner)

\* ------------------------------------------------------------------- C6
\* What the directory of kind k of m holds, by C6 as stated (what add_* put
\* there) and amended (that, and what the module was created with).
C6_Directory(m, k, J) ==
    /\ res.op = "len" => res.val = Cardinality(OfKind(m, J, k))
    /\ res.op = "names" =>
          /\ Range(res.val) = NamesOf(m, OfKind(m, J, k))
          /\ Len(res.val) = Cardinality(OfKind(m, J, k))
    /\ res.op = "get" =>
          /\ res.result.tag = "Ok" <=> Under(m, J, k, res.arg) # {}
          /\ res.result.tag = "Ok" =>
                /\ res.result.ent.kind = k
                /\ \A j \in Under(m, J, k, res.arg) :
                      heap[m].given[j][3] = res.result.ent.inner

\* C6 (as stated): a registered host module whose entities were added under
\* pairwise distinct names exports exactly what was added: each name resolves
\* under its kind to the entity added, nothing else is exported, and the
\* lengths are the numbers of entities added.
C6_ExactlyTheAdded ==
    (res.op \in {"len", "names", "get"} /\ DistinctNames(res.inst.inner)) =>
        C6_Directory(res.inst.inner, res.kind, Added(res.inst.inner))

\* C6 (amended): it exports exactly what was added and the host functions
\* the module was created with (none for an ImportModule).
C6_TheAddedAndTheBuiltins ==
    (res.op \in {"len", "names", "get"} /\ DistinctNames(res.inst.inner)) =>
        C6_Directory(res.inst.inner, res.kind,
                     Added(res.inst.inner) \cup Builtins(res.inst.inner))

\* A module created with a built-in function was given one more function and
\* an entity of another kind, under distinct names, and func_len read 2.
C6_LengthRead ==
    /\ res.op = "len"
    /\ res.kind = "func"
    /\ DistinctNames(res.inst.inner)
    /\ Builtins(res.inst.inner) # {}
    /\ Cardinality(Added(res.inst.inner)) = 2
    /\ Cardinality(OfKind(res.inst.inner, Added(res.inst.inner), "func")) = 1
    /\ res.val = 2

\* ------------------------------------------------------------------- C7
\* C7: for every Instance and kind, *_names returns None iff *_len is 0;
\* otherwise it returns exactly *_len distinct strings, each of which the
\* get_* of that kind resolves.
C7_NamesMatchLen ==
    res.op = "names" =>
        LET count == ExportLen(res.kind, heap, res.inst)
        IN /\ res.tag = "None" <=> count = 0
           /\ res.tag = "Some" =>
                 /\ Len(res.val) = count
                 /\ \A a, b \in 1..Len(res.val) : a # b => res.val[a] # res.val[b]
                 /\ \A a \in 1..Len(res.val) :
                       Get(res.kind, heap, res.inst, res.val[a]).tag = "Ok"

\* A listing of two names was returned by an Instance that has a kind with
\* nothing exported.
C7_TwoNamesListed ==
    /\ res.op = "names"
    /\ res.tag = "Some"
    /\ Len(res.val) = 2
    /\ \E k \in Kinds : ExportLen(k, heap, res.inst) = 0

\* ------------------------------------------------------------------- C8
\* C8: a lookup of a name never added under that kind returns the not-found
\* error of that kind carrying the name looked up; no lookup returns a
\* wrapper with a null handle.
C8_NotFoundOfTheKind ==
    res.op = "get" =>
        /\ Under(res.inst.inner, 1..Len(heap[res.inst.inner].given), res.kind, res.arg) = {} =>
              /\ res.result.tag = NotFound(res.kind)
              /\ res.result.name = res.arg
        /\ res.result.tag = "Ok" => res.result.ent.inner # Null

\* "missing" was looked up in a populated Instance, and not found.
C8_MissingLookedUp ==
    /\ res.op = "get"
    /\ res.arg = "missing"
    /\ res.result.tag = NotFound(res.kind)
    /\ Len(heap[res.inst.inner].given) >= MaxAdds

\* ------------------------------------------------------------------- C9
\* C9: every entity get_* returns has a non-null handle and is tagged
\* Registered; dropping it releases nothing, and after the lookup and the
\* drop the name resolves to the same entity.
C9_BorrowsNeverRelease ==
    /\ \A h \in Handles : ~heap[h].byRegistered
    /\ (res.op = "get" /\ res.result.tag = "Ok") =>
          /\ res.result.ent.inner # Null
          /\ res.result.ent.registered
          /\ ~Entity_drop_releases(res.result.ent)
          /\ ~res.freed
          /\ (pc = Idle /\ res.defined) =>
                Get(res.kind, heap, res.inst, res.arg) = res.result

\* An entity was fetched from a live Instance and dropped at once.
C9_BorrowFetchedAndDropped ==
    /\ res.op = "get"
    /\ res.result.tag = "Ok"
    /\ ~res.kept
    /\ res.defined
    /\ pc = Idle

\* ------------------------------------------------------------------ C10
\* C10: an entity created with a type (a global: and a value), added under a
\* name not otherwise used for that kind, and fetched from the registered
\* module's Instance by that name with the get_* of its kind, is found, and
\* has the type (and value) it was created with.
C10_RoundTrip ==
    LET m == res.inst.inner
        J == Under(m, Added(m), res.kind, res.arg)
    IN (res.op = "get" /\ Cardinality(J) = 1) =>
          /\ res.result.tag = "Ok"
          /\ \A j \in J :
                /\ heap[res.result.ent.inner].kind = res.result.ent.kind
                /\ heap[res.result.ent.inner].ty = heap[heap[m].given[j][3]].ty
                /\ heap[res.result.ent.inner].val = heap[heap[m].given[j][3]].val

\* The global created as a const f32 of 3.5 was fetched.
C10_GlobalFetched ==
    /\ res.op = "get"
    /\ res.kind = "global"
    /\ res.result.tag = "Ok"
    /\ heap[res.result.ent.inner].ty = "f32,const"
    /\ heap[res.result.ent.inner].val = "3.5"

\* ------------------------------------------------------------------ C11
\* The host module wrappers alive whose module the Instance i is of.
WrappersOf(i) == {m \in mods : m.inner = i.inner}

\* C11 (as stated): Instance::name() returns None for an anonymous instance
\* and Some(M) for the instance of a registered host module created with
\* the name M; it never returns Some of the empty string.
C11_SomeOfTheCreatedName ==
    (res.op = "name" /\ res.defined) =>
        /\ \A m \in WrappersOf(res.inst) :
              res.tag = "Some" /\ res.val = ImportObject_name(m)
        /\ (~res.inst.registered /\ heap[res.inst.inner].name = "") => res.tag = "None"
        /\ ~(res.tag = "Some" /\ res.val = "")

\* C11 (amended): Instance::name() returns None for an anonymous instance
\* and for the instance of a host module created with the empty name, and
\* Some(M) for the instance of a host module created with a non-empty name
\* M; it never returns Some of the empty string.
C11_SomeOfTheNonEmptyName ==
    (res.op = "name" /\ res.defined) =>
        /\ \A m \in WrappersOf(res.inst) :
              IF ImportObject_name(m) = ""
              THEN res.tag = "None"
              ELSE res.tag = "Some" /\ res.val = ImportObject_name(m)
        /\ (~res.inst.registered /\ heap[res.inst.inner].name = "") => res.tag = "None"
        /\ ~(res.tag = "Some" /\ res.val = "")

\* The Instance of the registered module "extern_module" was asked its name.
C11_NamedInstanceAsked ==
    /\ res.op = "name"
    /\ res.defined
    /\ res.inst.registered
    /\ res.tag = "Some"
    /\ res.val = "extern_module"
    /\ WrappersOf(res.inst) # {}

\* ------------------------------------------------------------------ C12
\* C12: a host module wrapper made by a create starts Unregistered (Owned),
\* and in no step does a wrapper that is Registered become Unregistered:
\* whatever is done with the module, a wrapper of it that was Registered
\* before the step is Registered after it.
C12_NeverBackToUnregistered ==
    [][/\ \A m \in mods' \ mods : m.inner \notin store'.owned => ~m.registered
       /\ \A m \in mods : \A m2 \in mods' :
             (m2.inner = m.inner /\ m.registered) => m2.registered]_vars

\* A Registered host module wrapper has been initialised, and is there,
\* Registered.
C12_RegisteredModuleUsed ==
    /\ res.op = "init"
    /\ res.self.registered
    /\ res.self \in mods

\* ------------------------------------------------------------------ C13
\* C13: once a host module has been registered, its wrapper is inert: it is
\* Registered and its drop would release nothing; and the Instances fetched
\* from the store stay valid, whatever has been dropped.
C13_RegisteredWrapperInert ==
    /\ \A m \in mods : m.inner \in store.links =>
          m.registered /\ ~HostModule_drop_releases(m)
    /\ \A i \in insts : i.registered => Live(heap, i.inner)

\* ------------------------------------------------------------------ C14
\* C14: each of the three creates returns its typed error exactly when the
\* backing call returned null; on success the wrapper holds the handle the
\* backing call returned, which is not null, and is Owned; no host module
\* wrapper created here has a null handle; and WasmEdgeProcessModule::create
\* returns the same error value whether the plugin is missing or the
\* allocation failed.
C14_ErrorIffNull ==
    /\ (res.op = "create" /\ res.variant \in Variants) =>
          /\ res.result.tag # "Ok" <=> res.ctx = Null
          /\ res.result.tag = "Ok" =>
                /\ res.result.wrapper.inner = res.ctx
                /\ res.result.wrapper.inner # Null
                /\ ~res.result.wrapper.registered
          /\ res.result.tag # "Ok" =>
                res.result = [tag |-> IF res.variant = "Import"
                                      THEN "CreateImportModule"
                                      ELSE "ImportObjCreate"]
    /\ \A m \in mods : m.inner # Null

\* A WasmEdgeProcessModule::create has failed for want of the plugin.
C14_PluginMissing ==
    /\ res.op = "create"
    /\ res.variant = "WasmEdgeProcess"
    /\ res.why = "plugin"
    /\ res.result.tag = "ImportObjCreate"

\* ------------------------------------------------------------------ C15
\* C15: exit_code() of a WasiModule whose entry function has not run is 0,
\* whatever lists the module was created with and whatever init_wasi calls
\* have configured it since.
C15_ZeroBeforeStart ==
    (res.op = "exit_code" /\ res.defined /\ ~heap[res.self.inner].ran) =>
        res.val = 0

\* exit_code() was read from a WasiModule that was given lists, by create or
\* by init_wasi, and whose entry function has not run.
C15_ConfiguredModuleRead ==
    /\ res.op = "exit_code"
    /\ res.defined
    /\ ~heap[res.self.inner].ran
    /\ heap[res.self.inner].cfg # WasiConfig(None, None, None)

\* ------------------------------------------------------------------ C16
\* The name ImportObject::name() is to return for the host module wrapper m:
\* the name its module was created with, or the fixed name of its variant.
NameOfVariant(m) ==
    CASE m.variant = "Import" -> heap[m.inner].name
      [] m.variant = "Wasi" -> "wasi_snapshot_preview1"
      [] m.variant = "WasmEdgeProcess" -> "wasmedge_process"

\* C16: ImportObject::name() returns the name of the active variant (for
\* Import the name given to ImportModule::create, for Wasi
\* "wasi_snapshot_preview1", for WasmEdgeProcess "wasmedge_process"), and no
\* step (add_*, init_*, registration or any other) changes what it returns
\* for a wrapper.
C16_NameOfActiveVariant ==
    /\ [](/\ \A m \in mods : ImportObject_name(m) = NameOfVariant(m)
          /\ res.op = "import_name" => res.val = NameOfVariant(res.self))
    /\ [][\A m \in mods : \A m2 \in mods' :
             (m2.inner = m.inner /\ m2.variant = m.variant) =>
                 ImportObject_name(m2) = ImportObject_name(m)]_vars

\* name() was asked of an Import module that has been given a function and
\* has been registered.
C16_NameAfterAddAndRegistration ==
    /\ res.op = "import_name"
    /\ res.self.variant = "Import"
    /\ res.val = "extern_module"
    /\ Len(heap[res.self.inner].given) > 0
    /\ res.self.inner \in store.links

C18_NullBecomesTypedError ==
    /\ (res.op = "create" /\ res.variant \in Variants /\ res.ctx = Null) =>
          /\ res.result.tag \in {"CreateImportModule", "ImportObjCreate"}
          /\ DOMAIN res.result = {"tag"}
    /\ (/\ pc = Idle
        /\ res.op = "get"
        /\ res.defined
        /\ WasmEdge_ModuleInstanceFind(heap, res.inst.inner, res.kind, res.arg) = Null) =>
          res.result = [tag |-> NotFound(res.kind), name |-> res.arg]

\* WasmEdge_ModuleInstanceCreateWASI returned null, and WasiModule::create
\* returned its error.
C18_WasiCreateFailed ==
    /\ res.op = "create"
    /\ res.variant = "Wasi"
    /\ res.ctx = Null
    /\ res.result.tag = "ImportObjCreate"

\* ------------------------------------------------------------------ C19
\* What the call c on the Instance i may return when it runs alone.
Alone(c, i) ==
    CASE c.f = "name" -> {Instance_name(heap, i)}
      [] c.f = "get" -> {Get(c.kind, heap, i, c.arg)}
      [] c.f = "len" -> {ExportLen(c.kind, heap, i)}
      [] c.f = "names" -> ExportNames(c.kind, heap, i)

\* C19: name, get_*, *_len and *_names run on a registered Instance from
\* several threads with no lock: however their steps interleave, each call
\* returns what it may return when it runs alone, and no step changes the
\* module, its directories or the entities in them.
C19_ReadsDoNotInterfere ==
    /\ [](\A t \in Threads : \A i \in insts :
             pc.at[t].at = "done" => res.out[t] \in Alone(pc.at[t].call, i))
    /\ [][heap' = heap /\ store' = store]_vars

\* While t1 is inside func_names, between reading the length (two names) and
\* listing, t2 has fetched an exported function.
C19_LookupInsideListing ==
    /\ pc.at["t1"] = [at |-> "listing", kind |-> "func", len |-> 2]
    /\ pc.at["t2"].at = "done"
    /\ pc.at["t2"].call.f = "get"
    /\ pc.at["t2"].call.kind = "func"
    /\ res.out["t2"].tag = "Ok"

\* ------------------------------------------------------------------ C20
\* C20: a host module wrapper or Instance wrapper moved to another thread is
\* there as it was, with its handle (not null) and its tag, and the sending
\* thread no longer has it; when the receiving thread ends, the drop there
\* releases the handle of an Owned wrapper, which has then been released
\* once, and nothing for a Registered one; no module is ever released twice.
C20_MovedReleasedOnce ==
    /\ [](/\ pc.op = "thread" =>
                /\ pc.arg.inner # Null
                /\ pc.arg \notin mods \cup insts
          /\ res.op = "joined" => res.nonnull /\ res.freed = ~res.was.registered
          /\ \A h \in Handles : heap[h].kind = "module" => heap[h].released <= 1)
    /\ [][/\ (pc'.op = "thread" /\ pc.op # "thread") =>
                /\ pc'.arg \in mods \cup insts
                /\ heap' = heap
          /\ (pc.op = "thread" /\ pc'.op # "thread") =>
                /\ res'.was = pc.arg
                /\ pc.arg \notin mods' \cup insts'
                /\ IF pc.arg.registered
                   THEN heap' = heap
                   ELSE /\ heap[pc.arg.inner].released = 0
                        /\ heap'[pc.arg.inner].released = 1]_vars

\* An Owned ImportModule was moved to a thread, and the drop at the end of
\* that thread released its module.
C20_OwnedModuleDroppedByReceiver ==
    /\ res.op = "joined"
    /\ IsHostModule(res.was)
    /\ ~res.was.registered
    /\ res.freed
    /\ heap[res.was.inner].released = 1

\* ------------------------------------------------------------------ C21
\* The (kind, name) entries add_* calls gave the module m, in order.
RECURSIVE EntriesAdded(_)
EntriesAdded(given) ==
    IF given = <<>> THEN <<>>
    ELSE IF IsBuiltin(Head(given)) THEN EntriesAdded(Tail(given))
    ELSE <<<<Head(given)[1], Head(given)[2]>>>> \o EntriesAdded(Tail(given))

\* C21: after the same sequence of add_* calls on an ImportModule, a
\* WasiModule and a WasmEdgeProcessModule, the three have been given the
\* same (kind, name) entries, and each call left the three wrappers passed
\* to it in the same state: handle null, tag as passed.
C21_VariantsAddAlike ==
    /\ EntriesAdded(heap[ImportAt].given) = EntriesAdded(heap[WasiAt].given)
    /\ EntriesAdded(heap[ImportAt].given) = EntriesAdded(heap[ProcessAt].given)
    /\ res.op = "add_each" =>
          \A j \in 1..3 :
              res.shells[j] = EntityWrapper(res.kind, Null, res.reg)

\* Each module was given a table and then a function under the name of the
\* function the WasiModule was created with.
C21_TwoAddedToEach ==
    /\ res.op = "add_each"
    /\ EntriesAdded(heap[ProcessAt].given) = <<<<"table", "add">>, <<"func", "fd_write">>>>

\* ------------------------------------------------------------------ C22
\* The entries of kind k the module m was given under a name that is q
\* character for character, and under one that is q but for the case of its
\* letters, or a proper prefix of q, or q and more.
ExactlyNamed(m, k, q) ==
    {j \in OfKind(m, 1..Len(heap[m].given), k) : Chars(heap[m].given[j][2]) = Chars(q)}

IsProperPrefix(a, b) ==
    Len(a) < Len(b) /\ a = SubSeq(b, 1, Len(a))

NearlyNamed(m, k, q) ==
    {j \in OfKind(m, 1..Len(heap[m].given), k) \ ExactlyNamed(m, k, q) :
        LET a == heap[m].given[j][2]
        IN \/ LowerCase(a) = LowerCase(q)
           \/ IsProperPrefix(Chars(a), Chars(q))
           \/ IsProperPrefix(Chars(q), Chars(a))}

\* C22: get_*(q) returns an entity only if one of that kind was added under
\* a name equal to q character for character, and then one added under that
\* name; when the only names added are ones that differ from q in case, or
\* are a proper prefix or an extension of q, it returns the not-found error
\* of the kind, carrying q.
C22_ExactMatchOnly ==
    res.op = "get" =>
        LET m == res.inst.inner
            exact == ExactlyNamed(m, res.kind, res.arg)
        IN /\ res.result.tag = "Ok" =>
                 res.result.ent.inner \in {heap[m].given[j][3] : j \in exact}
           /\ exact = {} => res.result = [tag |-> NotFound(res.kind), name |-> res.arg]

\* "ADD" was looked up where an entity of the kind had been added as "add",
\* and was not found.
C22_OtherCaseNotFound ==
    /\ res.op = "get"
    /\ res.arg = "ADD"
    /\ res.result.tag = NotFound(res.kind)
    /\ NearlyNamed(res.inst.inner, res.kind, res.arg) # {}

Dropped ==
    IF pc.op = "thread" /\ pc' = Idle THEN {pc.arg}
    ELSE IF pc = Idle /\ pc' = Idle THEN (mods \ mods') \cup (insts \ insts')
    ELSE {}

\* C24: the drop of an Instance, ImportModule, WasiModule or
\* WasmEdgeProcessModule wrapper releases its native handle, once, if the
\* wrapper is Owned and its handle is not null, and otherwise releases
\* nothing: then the native state and the store are as before, so a module
\* whose Registered Instance was dropped is still linked in the store, with
\* its directories unchanged.
C24_ReleasesIffOwnedAndNonNull ==
    [][\A w \in Dropped :
          IF ~w.registered /\ w.inner # Null
          THEN /\ heap'[w.inner].released = heap[w.inner].released + 1
               /\ w.inner \notin store'.links
          ELSE /\ heap' = heap
               /\ store' = store]_vars

\* The Registered Instance of a linked module was dropped, at the end of the
\* thread it had been moved to, and the module is alive and linked.
C24_BorrowedInstanceDropped ==
    /\ res.op = "joined"
    /\ ~IsHostModule(res.was)
    /\ res.was.registered
    /\ ~res.freed
    /\ res.was.inner \in store.links
    /\ Live(heap, res.was.inner)

\* ------------------------------------------------------------------ C25
\* Every wrapper, host module, Instance and the store have been dropped.
AllDropped ==
    /\ pc = Idle
    /\ ents = {}
    /\ mods = {}
    /\ insts = {}
    /\ ~store.alive

\* C25: once every wrapper, host module, Instance and store has been
\* dropped, every native handle that was created has been released, and
\* released exactly once.
C25_AllDroppedAllReleasedOnce ==
    AllDropped => \A h \in Handles : heap[h].released = 1

\* ------------------------------------------------------------------ C26
\* C26: a host module is built, entities are added to it, and it is dropped
\* without having been registered: the module's handle is released by the
\* drop of the module, once; the emptied wrapper of an added entity releases
\* nothing; and the handle of each entity the module holds is released with
\* the module, once, and never before.
C26_DroppedUnregistered ==
    /\ \A m \in Handles : heap[m].kind = "module" =>
          /\ heap[m].released = IF \E w \in mods : w.inner = m THEN 0 ELSE 1
          /\ \A j \in 1..Len(heap[m].given) :
                /\ heap[heap[m].given[j][3]].released = heap[m].released
                /\ ~heap[heap[m].given[j][3]].byRegistered
    /\ res.op = "add" => res.shell.inner = Null /\ ~res.freed

\* A module that was given a function, a table, a memory and a global has
\* been dropped.
C26_OneOfEachKindThenDropped ==
    /\ mods = {}
    /\ \E m \in Handles :
          /\ heap[m].kind = "module"
          /\ heap[m].released = 1
          /\ \A k \in Kinds : OfKind(m, Added(m), k) # {}

\* ------------------------------------------------------------------ C27
\* The threads that are using the import object.
Inside == {t \in Threads : pc.at[t] \in {"locked", "registered", "fetched", "read"}}

\* C27: an import object built by one thread and shared behind a mutex is
\* registered into a fresh store by a thread that holds the lock: the
\* registration succeeds, and a name added once before the handoff is
\* resolved by the get_* of its kind to an entity of the type and value it
\* was created with; and at no time is more than one thread using the import
\* object, the one that holds the lock.
C27_RegisteredUnderTheLock ==
    /\ Cardinality(Inside) <= 1
    /\ \A t \in Inside : pc.lock = t
    /\ \A t \in Threads :
          /\ pc.at[t] \in {"registered", "fetched", "read", "done"} =>
                res.reg[t] = [tag |-> "Ok"]
          /\ pc.at[t] \in {"read", "done"} =>
                LET o == res.out[t]
                    m == o.inst.inner
                    J == Under(m, Added(m), o.kind, o.arg)
                IN Cardinality(J) = 1 =>
                      /\ o.result.tag = "Ok"
                      /\ \A j \in J :
                            /\ heap[o.result.ent.inner].kind = o.kind
                            /\ heap[o.result.ent.inner].ty = heap[heap[m].given[j][3]].ty
                            /\ heap[o.result.ent.inner].val = heap[heap[m].given[j][3]].val

\* Both threads have had the lock in turn; the second registered the import
\* object into its own store and found the global added before the handoff.
C27_SecondThreadFoundGlobal ==
    /\ pc.at["t1"] = "done"
    /\ pc.at["t2"] = "read"
    /\ res.out["t2"].kind = "global"
    /\ res.out["t2"].result.tag = "Ok"
    /\ heap[res.out["t2"].result.ent.inner].val = "3.5"

\* ------------------------------------------------------------------ C28
\* C28: name, get_*, *_len and *_names change nothing: a step that is one
\* of these calls, whether it finds what it was asked for or not, leaves the
\* native module (its name, its four directories, their counts and the
\* entities in them), the store, and the Instance and host module wrappers,
\* with their handles and tags, as they were.
C28_ReadsChangeNothing ==
    [][res'.op \in {"name", "get", "len", "names"} =>
          /\ heap' = heap
          /\ store' = store
          /\ insts' = insts
          /\ mods' = mods]_vars

\* A memory was fetched from the Instance; the result was dropped, and the
\* memory is alive.
C28_MemoryFetchedAndLet ==
    /\ res.op = "get"
    /\ res.kind = "memory"
    /\ res.result.tag = "Ok"
    /\ ~res.kept
    /\ Live(heap, res.result.ent.inner)

\* ------------------------------------------------------------------ C29
\* The delegated calls of one invocation, in the order the code makes them.
\* A delegated call is written <<function, kind>>, the kind being "" where
\* the runtime function has none.

\* Instance::func_len / table_len / mem_len / global_len
Instance_len_calls(k) == <<(<<"WasmEdge_ModuleInstanceListLength", k>>)>>

\* *_names as they would be if an empty answer were asked for again.
Instance_names_calls_retrying(k, len) ==
    IF len > 0
    THEN Instance_len_calls(k) \o <<(<<"WasmEdge_ModuleInstanceList", k>>)>>
    ELSE Instance_len_calls(k) \o Instance_len_calls(k)

\* Instance::func_names / table_names / mem_names / global_names: the length
\* is read through *_len, and the list is fetched when the length is not 0.
Instance_names_calls(k, len) ==
    IF len > 0
    THEN Instance_len_calls(k) \o <<(<<"WasmEdge_ModuleInstanceList", k>>)>>
    ELSE Instance_len_calls(k)

\* The delegated calls the operation c makes on the Instance inst.  name,
\* get_* (whether the lookup returns null or not), create (whether the
\* runtime returns null or not), add_*, init_* and exit_code make one; the
\* name of a host module makes none; Drop makes one when the wrapper is
\* Owned and not null.
CallsOf(c, hp, inst) ==
    CASE c.f = "name" -> <<(<<"WasmEdge_ModuleInstanceGetModuleName", "">>)>>
      [] c.f = "get" -> <<(<<"WasmEdge_ModuleInstanceFind", c.kind>>)>>
      [] c.f = "len" -> Instance_len_calls(c.kind)
      [] c.f = "names" -> Instance_names_calls(c.kind, ExportLen(c.kind, hp, inst))
      [] c.f = "create" /\ c.variant = "Import" ->
            <<(<<"WasmEdge_ModuleInstanceCreate", "">>)>>
      [] c.f = "create" /\ c.variant = "Wasi" ->
            <<(<<"WasmEdge_ModuleInstanceCreateWASI", "">>)>>
      [] c.f = "create" /\ c.variant = "WasmEdgeProcess" ->
            <<(<<"WasmEdge_ModuleInstanceCreateWasmEdgeProcess", "">>)>>
      [] c.f = "add" -> <<(<<"WasmEdge_ModuleInstanceAdd", c.kind>>)>>
      [] c.f = "drop" ->
            IF Instance_drop_releases(InstanceWrapper(inst.inner, c.registered))
            THEN <<(<<"WasmEdge_ModuleInstanceDelete", "">>)>>
            ELSE <<>>
      [] c.f = "init_wasi" -> <<(<<"WasmEdge_ModuleInstanceInitWASI", "">>)>>
      [] c.f = "init_wasmedge_process" ->
            <<(<<"WasmEdge_ModuleInstanceInitWasmEdgeProcess", "">>)>>
      [] c.f = "exit_code" -> <<(<<"WasmEdge_ModuleInstanceWASIGetExitCode", "">>)>>
      [] c.f = "module_name" -> <<>>

\* A host module of any variant, filled, registered, and its Instance fetched.
InitCalls ==
    /\ \E v \in Variants, adds \in SharedAddLists :
          LET m == Len(Created(v))
          IN /\ heap = Built(Created(v), m, adds)
             /\ mods = {ModuleWrapper(v, m, IF v = "Import" THEN "extern_module" ELSE "")}
             /\ insts = {InstanceWrapper(m, TRUE)}
             /\ store = [alive |-> TRUE, links |-> {m}, owned |-> {}]
    /\ ents = {}
    /\ pc = Idle
    /\ res = NoRes

\* One invocation of the operation c: res holds the delegated calls it made.
Invoke(c, i) ==
    /\ pc = Idle
    /\ i \in insts
    /\ res' = [op |-> "invoke", call |-> c, calls |-> CallsOf(c, heap, i)]
    /\ UNCHANGED <<heap, ents, mods, insts, store, pc>>

\* The public operations: those of the Instance, and those of the host
\* modules, with the outcome of the creating call.
NextCalls ==
    \E i \in insts,
       c \in ReadCalls
              \cup {[f |-> "create", variant |-> v, ok |-> b] : v \in Variants, b \in BOOLEAN}
              \cup {[f |-> "add", kind |-> k] : k \in Kinds}
              \cup {[f |-> "drop", registered |-> b] : b \in BOOLEAN}
              \cup {[f |-> g] : g \in {"init_wasi", "init_wasmedge_process",
                                          "exit_code", "module_name"}} :
        Invoke(c, i)

SpecCalls == InitCalls /\ [][NextCalls]_vars

\* No delegated call occurs twice in s.
NoRepeat(s) == \A a, b \in 1..Len(s) : a # b => s[a] # s[b]

\* C29 as stated: an invocation makes at most one delegated call, and makes
\* none a second time.
C29_AtMostOneCall ==
    res.op = "invoke" => Len(res.calls) <= 1 /\ NoRepeat(res.calls)

\* C29: an invocation makes no delegated call a second time, whatever the
\* call returned; it makes at most one delegated call, except *_names of a
\* directory that is not empty, which makes two: the length, then the list.
C29_NoCallRepeated ==
    res.op = "invoke" =>
        /\ NoRepeat(res.calls)
        /\ \/ Len(res.calls) <= 1
           \/ /\ res.call.f = "names"
              /\ res.calls = <<(<<"WasmEdge_ModuleInstanceListLength", res.call.kind>>),
                               (<<"WasmEdge_ModuleInstanceList", res.call.kind>>)>>
        /\ (res.call.f = "names" /\ Len(res.calls) = 1) =>
               res.calls = <<(<<"WasmEdge_ModuleInstanceListLength", res.call.kind>>)>>

\* The names of a directory that holds something were asked for.
C29_NamesOfFilledDirectory ==
    /\ res.op = "invoke"
    /\ res.call.f = "names"
    /\ Len(res.calls) = 2

\* ------------------------------------------------------------------ C30
\* C30: the four directories of an Instance are independent.  A lookup of
\* kind k finds N exactly when something was added under N as kind k, and
\* then it is that entity, of kind k; otherwise it returns the not-found
\* error of kind k, whatever was added under N as another kind.  The length
\* and the names of kind k are those of what was added as kind k.
C30_DirectoriesIndependent ==
    res.op \in {"get", "len", "names"} =>
        LET m == res.inst.inner
            all == 1..Len(heap[m].given)
            mine == OfKind(m, all, res.kind)
        IN /\ res.op = "get" =>
                 /\ res.result.tag = "Ok" <=> Under(m, all, res.kind, res.arg) # {}
                 /\ res.result.tag = "Ok" =>
                       /\ res.result.ent.kind = res.kind
                       /\ \E j \in Under(m, all, res.kind, res.arg) :
                             heap[m].given[j][3] = res.result.ent.inner
                 /\ res.result.tag # "Ok" =>
                       /\ res.result.tag = NotFound(res.kind)
                       /\ res.result.name = res.arg
           /\ res.op = "len" => res.val = Cardinality(NamesOf(m, mine))
           /\ res.op = "names" => Range(res.val) = NamesOf(m, mine)

\* "add" was added as a function and as a table, and never as a global; the
\* lookup of the global "add" returned the not-found error of globals.
C30_NameOfOtherKindsNotFound ==
    /\ res.op = "get"
    /\ res.kind = "global"
    /\ res.arg = "add"
    /\ res.result.tag = "NotFoundGlobal"
    /\ Under(res.inst.inner, 1..Len(heap[res.inst.inner].given), "func", "add") # {}
    /\ Under(res.inst.inner, 1..Len(heap[res.inst.inner].given), "table", "add") # {}

\* ------------------------------------------------------------------ C31
\* C31: adds of one kind under one name corrupt nothing, whichever entry the
\* runtime keeps.  Every add leaves its wrapper without a handle, and the
\* drop of that wrapper releases nothing; no handle is ever released more
\* than once; and what is read from the Instance of the registered module,
\* while that module is alive, agrees: *_names is None exactly when *_len is
\* 0, else it lists *_len distinct names that get_* resolves; a lookup that
\* succeeds returns an entity of its kind that was added under that name;
\* and the length is the number of names added under that kind.
C31_CollisionCorruptsNothing ==
    /\ res.op = "add" => res.shell.inner = Null /\ ~res.freed
    /\ \A h \in Handles : heap[h].released <= 1
    /\ (res.op \in {"get", "len", "names"} /\ Live(heap, res.inst.inner)) =>
          LET m == res.inst.inner
              all == 1..Len(heap[m].given)
              count == ExportLen(res.kind, heap, res.inst)
          IN /\ count = Cardinality(NamesOf(m, OfKind(m, all, res.kind)))
             /\ res.op = "len" => res.val = count
             /\ res.op = "names" =>
                   /\ res.tag = "None" <=> count = 0
                   /\ res.tag = "Some" =>
                         /\ Len(res.val) = count
                         /\ \A a, b \in 1..Len(res.val) : a # b => res.val[a] # res.val[b]
                         /\ \A a \in 1..Len(res.val) :
                               Get(res.kind, heap, res.inst, res.val[a]).tag = "Ok"
             /\ res.op = "get" =>
                   /\ res.result.tag = "Ok" <=> res.arg \in NamesOf(m, OfKind(m, all, res.kind))
                   /\ res.result.tag = "Ok" =>
                         /\ res.result.ent.kind = res.kind
                         /\ \E j \in Under(m, all, res.kind, res.arg) :
                               heap[m].given[j][3] = res.result.ent.inner

\* Two globals were added under "add"; the module was registered and the
\* names of its globals were read: one name.
C31_TwoGlobalsUnderOneName ==
    /\ res.op = "names"
    /\ res.kind = "global"
    /\ Live(heap, res.inst.inner)
    /\ res.val = <<"add">>
    /\ Cardinality(Under(res.inst.inner, 1..Len(heap[res.inst.inner].given),
                         "global", "add")) = 2

\* ------------------------------------------------------------------ C32
\* The configuration the runtime holds for the arguments g of a create or an
\* init_* of the variant v.
GivenConfig(v, g) ==
    IF v = "Wasi" THEN WasiConfig(g[1], g[2], g[3]) ELSE ProcessConfig(g[1], g[2])

\* An init_* step leaves the wrappers, with their handles and tags, and what
\* every module was given and exports, as they were.
InitFrame ==
    /\ mods' = mods
    /\ ents' = ents /\ insts' = insts /\ store' = store
    /\ Len(heap') = Len(heap)
    /\ \A h \in Handles :
          /\ heap'[h].given = heap[h].given
          /\ heap'[h].exports = heap[h].exports
          /\ heap'[h].released = heap[h].released
          /\ heap'[h].name = heap[h].name

Emptied(opt) == IF opt.some THEN opt ELSE Some(<<>>)

\* C33: in the create and the init_* of a WasiModule and of a
\* WasmEdgeProcessModule an absent list is an empty list: the runtime is
\* given the length 0 for it, and the module is configured as it is by the
\* same call with the empty list.
C33_AbsentIsEmpty ==
    (res.op \in {"create", "init"} /\ "given" \in DOMAIN res) =>
        LET v == IF res.op = "create" THEN res.variant ELSE res.self.variant
            h == IF res.op = "create" THEN res.ctx ELSE res.self.inner
            g == res.given
        IN IF v = "Wasi"
           THEN /\ \A j \in 1..3 : ~g[j].some => heap[h].cfg[j] = 0
                /\ heap[h].cfg = WasiConfig(Emptied(g[1]), Emptied(g[2]), Emptied(g[3]))
           ELSE /\ ~g[1].some => heap[h].cfg[1] = 0
                /\ heap[h].cfg = ProcessConfig(Emptied(g[1]), g[2])

\* A WasiModule was created with no args, empty envs and two preopens.
C33_CreatedWithAbsentAndEmpty ==
    /\ res.op = "create"
    /\ res.variant = "Wasi"
    /\ res.result.tag = "Ok"
    /\ res.given = <<None, Some(<<>>), Some(<<"arg1", "arg2">>)>>
    /\ heap[res.ctx].cfg = <<0, 0, 2>>

====
